---- MODULE Spec2Model ----
(***************************************************************************)
(* A model of the log-structured key/value store of src/engines/kv.rs:     *)
(* the record codec, the generation log files (as byte sequences), the     *)
(* in-memory index, open/recovery, set, get, remove and compaction.        *)
(*                                                                         *)
(* Log files are sequences of bytes.  A record is framed as a 4-byte       *)
(* little-endian length prefix followed by the encoded KvsCommand.  The    *)
(* prost encoding is modelled by a fixed field layout                      *)
(*   <<version, sequence_number, timestamp, checksum,                      *)
(*     tag, key_len, key..., [value_len, value...]>>                       *)
(* where tag 1 is Set, tag 2 is Remove and a message that ends after the   *)
(* checksum has no command (the empty oneof).                              *)
(***************************************************************************)
EXTENDS Integers, Sequences, FiniteSets, TLC

\* ------------------------------------------------------------------ bounds
MaxSeq == 4      \* no write is started once current_sequence reaches MaxSeq
MaxGen == 5      \* no generation file above MaxGen is ever created
MaxOpenGen == 4  \* no reopen gives a current generation above MaxOpenGen

\* No log file grows beyond MaxSeq records of at most 14 bytes.
MaxFileLen == 14 * MaxSeq

MaxReq == 3      \* the clients send no more than MaxReq messages in all

\* With two threads in get, no write is started once current_sequence
\* reaches MaxBusySeq.
MaxBusySeq == 3

\* ------------------------------------------------------- program constants
\* kv.rs:20 has 1024 * 1024; the threshold is scaled down so that two or
\* three superseded records exceed it.
COMPACTION_THRESHOLD == 20
CURRENT_SCHEMA_VERSION == 1

\* Keys and values are byte strings.
Keys == {<<1>>, <<2>>}
Values == {<<5>>, <<6, 6>>}

\* SystemTime::now() is informational only; the clock is frozen.
Now == 0

\* ------------------------------------------------------------------ codec
RECURSIVE Crc32(_, _)
Crc32(bytes, h) ==
    IF bytes = <<>> THEN h
    ELSE Crc32(Tail(bytes), (h * 31 + Head(bytes) + 1) % 251)

\* Checksumable::get_fields_for_checksum
get_fields_for_checksum(command) ==
    IF command.type = "Set" THEN command.key \o command.value
    ELSE command.key

\* Checksumable::calculate_checksum
calculate_checksum(command) == Crc32(get_fields_for_checksum(command), 7)

NoCommand == [type |-> "None"]

\* KvsCommand::set
KvsCommand_set(key, value, sequence) ==
    LET command == [type |-> "Set", key |-> key, value |-> value]
    IN [timestamp |-> Now, sequence_number |-> sequence,
        checksum |-> calculate_checksum(command),
        version |-> CURRENT_SCHEMA_VERSION, command |-> command]

\* KvsCommand::remove
KvsCommand_remove(key, sequence) ==
    LET command == [type |-> "Remove", key |-> key]
    IN [timestamp |-> Now, sequence_number |-> sequence,
        checksum |-> calculate_checksum(command),
        version |-> CURRENT_SCHEMA_VERSION, command |-> command]

\* KvsCommand::verify_checksum
verify_checksum(cmd) ==
    IF cmd.command.type = "None" THEN FALSE
    ELSE cmd.checksum = calculate_checksum(cmd.command)

\* prost::Message::encode_to_vec
encode_to_vec(cmd) ==
    <<cmd.version, cmd.sequence_number, cmd.timestamp, cmd.checksum>> \o
    (CASE cmd.command.type = "Set" ->
            <<1, Len(cmd.command.key)>> \o cmd.command.key \o
            <<Len(cmd.command.value)>> \o cmd.command.value
       [] cmd.command.type = "Remove" ->
            <<2, Len(cmd.command.key)>> \o cmd.command.key
       [] OTHER -> <<>>)

DecodeError == [ok |-> FALSE]

\* prost::Message::decode
decode(b) ==
    LET n == Len(b)
        hdr(c) == [ok |-> TRUE,
                   cmd |-> [timestamp |-> b[3], sequence_number |-> b[2],
                            checksum |-> b[4], version |-> b[1],
                            command |-> c]]
    IN IF n < 4 THEN DecodeError
       ELSE IF n = 4 THEN hdr(NoCommand)
       ELSE IF n < 6 THEN DecodeError
       ELSE LET kl == b[6]
                key == SubSeq(b, 7, 6 + kl)
            IN CASE b[5] = 2 ->
                      IF n = 6 + kl
                      THEN hdr([type |-> "Remove", key |-> key])
                      ELSE DecodeError
                 [] b[5] = 1 ->
                      IF n >= 7 + kl /\ n = 7 + kl + b[7 + kl]
                      THEN hdr([type |-> "Set", key |-> key,
                                value |-> SubSeq(b, 8 + kl, n)])
                      ELSE DecodeError
                 [] OTHER -> DecodeError

\* u32::to_le_bytes
to_le_bytes(n) ==
    <<n % 256, (n \div 256) % 256, (n \div 65536) % 256,
      (n \div 16777216) % 256>>

\* u32::from_le_bytes
from_le_bytes(b) == b[1] + 256 * b[2] + 65536 * b[3] + 16777216 * b[4]

\* The framed record that set and remove append: prefix, then message.
Frame(cmd) ==
    LET cmd_bytes == encode_to_vec(cmd)
    IN to_le_bytes(Len(cmd_bytes)) \o cmd_bytes

\* ------------------------------------------------------------- index map
\* The index is a function whose domain is the set of keys present.
CommandPos(g, p, l) == [geneeration |-> g, pos |-> p, len |-> l]

MapInsert(m, k, v) == [x \in (DOMAIN m) \cup {k} |-> IF x = k THEN v ELSE m[x]]

MapRemove(m, k) == [x \in (DOMAIN m) \ {k} |-> m[x]]

EmptyMap == [x \in {} |-> 0]

\* Read::read_exact on a file at an offset: the n bytes, or UnexpectedEof.
read_exact(bytes, pos, n) ==
    IF pos + n <= Len(bytes)
    THEN [ok |-> TRUE, data |-> SubSeq(bytes, pos + 1, pos + n)]
    ELSE [ok |-> FALSE]

\* The two reads that get, compact and load_v2 make at a record's offset:
\* the 4-byte prefix, then the message of the announced length.
read_frame_done(len_data, msg) ==
    IF msg.ok
    THEN [st |-> "ok", len_bytes |-> len_data, msg_bytes |-> msg.data]
    ELSE [st |-> "eof_msg", len_bytes |-> len_data, msg_bytes |-> <<>>]

read_frame_msg(bytes, pos, len_bytes) ==
    IF len_bytes.ok
    THEN read_frame_done(len_bytes.data,
             read_exact(bytes, pos + 4, from_le_bytes(len_bytes.data)))
    ELSE [st |-> "eof_prefix", len_bytes |-> <<>>, msg_bytes |-> <<>>]

read_frame(bytes, pos) == read_frame_msg(bytes, pos, read_exact(bytes, pos, 4))

\* ------------------------------------------------------------ result codes
Ok == "Ok"
KeyNotFound == "KeyNotFound"
IoError == "IoError"
Deserialize == "Deserialize"
CorruptedData == "CorruptedData"
UnexpectedCommandType == "UnexpectedCommandType"
Panic == "Panic"
Serialization == "Serialization"

\* Result<Option<String>> of get.
Some(v) == [kind |-> "Some", value |-> v]
None == [kind |-> "None", value |-> <<>>]
Err(e) == [kind |-> e, value |-> <<>>]

\* ----------------------------------------------------------- the directory
\* sorted_geneeration_list: the generations of the <u64>.log files, ascending.
RECURSIVE sorted_geneeration_list(_)
sorted_geneeration_list(gens) ==
    IF gens = {} THEN <<>>
    ELSE LET m == CHOOSE g \in gens : \A h \in gens : g <= h
         IN <<m>> \o sorted_geneeration_list(gens \ {m})

\* A store state s is a record:
\*   files              generations whose <g>.log exists in the directory
\*   logs               contents of every log file created and still held
\*                      (a file that is deleted stays readable through the
\*                      handles that were opened before the unlink)
\*   index              key -> CommandPos
\*   readers            generations the store holds a reader for
\*   writer             the append handle: its file and its pos
\*   current_generation, uncompacted, current_sequence, safe_point

\* new_log_file (kv.rs:442): create/append-open <g>.log, register a reader.
\* The writer it returns is NewWriter(g).
new_log_file(s, g) ==
    [s EXCEPT !.files = @ \cup {g},
              !.logs = IF g \in DOMAIN @ THEN @ ELSE MapInsert(@, g, <<>>),
              !.readers = @ \cup {g}]

NewWriter(g) == [file |-> g, pos |-> 0]

\* Length of the index entry of key, 0 when there is none: what
\* `if let Some(old_cmd) = ...` adds to uncompacted.
OldLen(index, key) == IF key \in DOMAIN index THEN index[key].len ELSE 0

\* ------------------------------------------------------------------ load_v2
\* Replays one log file into the index, from byte offset pos.
\* Returns [err, index, uncompacted, highest_sequence].
RECURSIVE load_v2_loop(_, _, _, _, _, _)

LoadResult(e, index, uncompacted, highest_sequence) ==
    [err |-> e, index |-> index, uncompacted |-> uncompacted,
     highest_sequence |-> highest_sequence]

Max(a, b) == IF a > b THEN a ELSE b

\* kv.rs:524-550: a verified command is applied to the index.
load_v2_apply(geneeration, bytes, start_pos, pos, index, uncompacted, hs, command) ==
    CASE command.type = "Set" ->
           load_v2_loop(geneeration, bytes, pos,
               MapInsert(index, command.key,
                         CommandPos(geneeration, start_pos, pos - start_pos)),
               uncompacted + OldLen(index, command.key), hs)
      [] command.type = "Remove" ->
           load_v2_loop(geneeration, bytes, pos,
               MapRemove(index, command.key),
               uncompacted + OldLen(index, command.key) + (pos - start_pos),
               hs)
      [] OTHER -> LoadResult(UnexpectedCommandType, index, uncompacted, hs)

\* kv.rs:515-524: decode, verify the checksum, track the highest sequence.
load_v2_decoded(geneeration, bytes, start_pos, pos, index, uncompacted, highest_sequence, d) ==
    IF ~d.ok
    THEN LoadResult(Deserialize, index, uncompacted, highest_sequence)
    ELSE IF ~verify_checksum(d.cmd)
    THEN LoadResult(CorruptedData, index, uncompacted, highest_sequence)
    ELSE load_v2_apply(geneeration, bytes, start_pos, pos, index, uncompacted,
                       Max(highest_sequence, d.cmd.sequence_number),
                       d.cmd.command)

\* kv.rs:496-512: the prefix (UnexpectedEof there ends the loop) and the
\* message (UnexpectedEof there is an error).
load_v2_frame(geneeration, bytes, start_pos, index, uncompacted, highest_sequence, f) ==
    CASE f.st = "eof_prefix" ->
           LoadResult(Ok, index, uncompacted, highest_sequence)
      [] f.st = "eof_msg" ->
           LoadResult(IoError, index, uncompacted, highest_sequence)
      [] OTHER ->
           load_v2_decoded(geneeration, bytes, start_pos,
               start_pos + 4 + Len(f.msg_bytes), index, uncompacted,
               highest_sequence, decode(f.msg_bytes))

load_v2_loop(geneeration, bytes, pos, index, uncompacted, highest_sequence) ==
    load_v2_frame(geneeration, bytes, pos, index, uncompacted,
                  highest_sequence, read_frame(bytes, pos))

\* Mutant: each file is replayed into an empty index.
load_v2_forgets(geneeration, bytes, index) ==
    load_v2_loop(geneeration, bytes, 0, EmptyMap, 0, 0)

load_v2(geneeration, bytes, index) ==
    load_v2_loop(geneeration, bytes, 0, index, 0, 0)

\* --------------------------------------------------------------------- open
\* The loop of KvStore::open over the sorted generation list.
RECURSIVE open_loop(_, _, _)

\* kv.rs:352-356
\* Mutant: the sequence number of the last file replaces the maximum.
open_loop_next_last_sequence(list, logs, acc, r) ==
    open_loop(Tail(list), logs,
        [err |-> r.err, index |-> r.index,
         uncompacted |-> acc.uncompacted + r.uncompacted,
         readers |-> acc.readers \cup {Head(list)},
         highest_seq |-> r.highest_sequence])

open_loop_next(list, logs, acc, r) ==
    open_loop(Tail(list), logs,
        [err |-> r.err, index |-> r.index,
         uncompacted |-> acc.uncompacted + r.uncompacted,
         readers |-> acc.readers \cup {Head(list)},
         highest_seq |-> Max(acc.highest_seq, r.highest_sequence)])

open_loop(list, logs, acc) ==
    IF list = <<>> \/ acc.err # Ok THEN acc
    ELSE open_loop_next(list, logs, acc,
             load_v2(Head(list), logs[Head(list)], acc.index))

\* kv.rs:359-378
open_finish(files, disk, current_geneeration, r) ==
    [err |-> r.err,
     s |-> [files |-> IF r.err = Ok THEN files \cup {current_geneeration}
                      ELSE files,
            logs |-> IF r.err = Ok /\ current_geneeration \notin files
                     THEN MapInsert(disk, current_geneeration, <<>>)
                     ELSE disk,
            index |-> r.index,
            readers |-> IF r.err = Ok
                        THEN r.readers \cup {current_geneeration}
                        ELSE r.readers,
            writer |-> NewWriter(current_geneeration),
            current_generation |-> current_geneeration,
            uncompacted |-> r.uncompacted,
            current_sequence |-> r.highest_seq,
            safe_point |-> 0]]

\* Mutant: the current generation is the number of files found plus one.
open_replay_counts_files(files, disk, geneeration_list) ==
    open_finish(files, disk, Len(geneeration_list) + 1,
        open_loop(geneeration_list, disk,
            [err |-> Ok, index |-> EmptyMap, uncompacted |-> 0,
             readers |-> {}, highest_seq |-> 0]))

\* kv.rs:343-359
open_replay(files, disk, geneeration_list) ==
    open_finish(files, disk,
        IF geneeration_list = <<>> THEN 1
        ELSE geneeration_list[Len(geneeration_list)] + 1,
        open_loop(geneeration_list, disk,
            [err |-> Ok, index |-> EmptyMap, uncompacted |-> 0,
             readers |-> {}, highest_seq |-> 0]))

\* KvStore::open on a directory holding the files `files` with contents
\* `logs`.  Returns [err, s].
open(files, logs) ==
    open_replay(files, [g \in files |-> logs[g]], sorted_geneeration_list(files))

\* ---------------------------------------------------------------------- get
\* kv.rs:420-433
get_decoded(d) ==
    IF ~d.ok THEN Err(Deserialize)
    ELSE IF ~verify_checksum(d.cmd) THEN Err(CorruptedData)
    ELSE IF d.cmd.command.type = "Set" THEN Some(d.cmd.command.value)
    ELSE IF d.cmd.command.type = "Remove" THEN Err(UnexpectedCommandType)
    ELSE None

\* kv.rs:409-420
get_frame(f) ==
    IF f.st # "ok" THEN Err(IoError) ELSE get_decoded(decode(f.msg_bytes))

\* kv.rs:409-433: seek to the offset, read and decode the record.
get_read(bytes, pos) == get_frame(read_frame(bytes, pos))

\* KvStore::get (kv.rs:403), reading through the reader map `readers`.
get_with(s, readers, key) ==
    IF key \notin DOMAIN s.index THEN None
    ELSE IF s.index[key].geneeration \notin readers
    THEN Err(Panic)    \* expect("Cannot find log reader")
    ELSE get_read(s.logs[s.index[key].geneeration], s.index[key].pos)

get(s, key) == get_with(s, s.readers, key)

\* ------------------------------------------------------------------ compact
\* Order of String keys (the SkipMap iterates in key order).
RECURSIVE LexLess(_, _)
LexLess(a, b) ==
    IF a = <<>> THEN b # <<>>
    ELSE IF b = <<>> THEN FALSE
    ELSE IF Head(a) # Head(b) THEN Head(a) < Head(b)
    ELSE LexLess(Tail(a), Tail(b))

RECURSIVE SortedKeys(_)
SortedKeys(ks) ==
    IF ks = {} THEN <<>>
    ELSE LET m == CHOOSE k \in ks : \A j \in ks : j = k \/ LexLess(k, j)
         IN <<m>> \o SortedKeys(ks \ {m})

\* The compaction writer and the staged updates: the bytes written to the
\* BufWriter and not yet flushed, new_pos, and pos_updates.
NewCompactionWriter == [buf |-> <<>>, new_pos |-> 0, pos_updates |-> <<>>]

\* Mutant: the record is encoded again, with sequence number 0, instead of
\* being copied.
compact_copy_frame_restamped(readers, compaction_generation, cw, key, f) ==
    IF f.st # "ok" THEN [err |-> IoError, readers |-> readers, cw |-> cw]
    ELSE [err |-> Ok, readers |-> readers,
          cw |-> [buf |-> cw.buf \o Frame([decode(f.msg_bytes).cmd
                                             EXCEPT !.sequence_number = 0]),
                  new_pos |-> cw.new_pos + 4 + Len(f.msg_bytes),
                  pos_updates |-> Append(cw.pos_updates,
                      <<key, CommandPos(compaction_generation, cw.new_pos,
                                        4 + Len(f.msg_bytes))>>)]]

\* kv.rs:257-282: the record read at the entry's offset is written to the
\* compaction writer and its new position is staged.
compact_copy_frame(readers, compaction_generation, cw, key, f) ==
    IF f.st # "ok" THEN [err |-> IoError, readers |-> readers, cw |-> cw]
    ELSE [err |-> Ok, readers |-> readers,
          cw |-> [buf |-> cw.buf \o f.len_bytes \o f.msg_bytes,
                  new_pos |-> cw.new_pos + 4 + Len(f.msg_bytes),
                  pos_updates |-> Append(cw.pos_updates,
                      <<key, CommandPos(compaction_generation, cw.new_pos,
                                        4 + Len(f.msg_bytes))>>)]]

\* One iteration of the copy loop (kv.rs:235-283) for (key, cmd_pos).
\* Returns [err, readers, cw].
compact_copy_one(s, compaction_generation, cw, key) ==
    IF /\ s.index[key].geneeration \notin s.readers
       /\ s.index[key].geneeration \notin s.files
    THEN [err |-> Panic, readers |-> s.readers, cw |-> cw]
         \* expect("Cannot open log file")
    ELSE compact_copy_frame(s.readers \cup {s.index[key].geneeration},
             compaction_generation, cw, key,
             read_frame(s.logs[s.index[key].geneeration], s.index[key].pos))

\* The copy loop over the index in key order.  Returns [err, s, cw].
RECURSIVE compact_copy(_, _, _, _)

compact_copy_next(s, compaction_generation, keys, r) ==
    IF r.err # Ok
    THEN [err |-> r.err, s |-> [s EXCEPT !.readers = r.readers], cw |-> r.cw]
    ELSE compact_copy([s EXCEPT !.readers = r.readers], compaction_generation,
                      r.cw, Tail(keys))

compact_copy(s, compaction_generation, cw, keys) ==
    IF keys = <<>> THEN [err |-> Ok, s |-> s, cw |-> cw]
    ELSE compact_copy_next(s, compaction_generation, keys,
             compact_copy_one(s, compaction_generation, cw, Head(keys)))

\* Mutant: the staged updates are dropped.
apply_pos_updates_dropped(index, pos_updates) == index

\* kv.rs:287-289: apply the staged updates to the index.
RECURSIVE apply_pos_updates(_, _)
apply_pos_updates(index, pos_updates) ==
    IF pos_updates = <<>> THEN index
    ELSE apply_pos_updates(
             MapInsert(index, Head(pos_updates)[1], Head(pos_updates)[2]),
             Tail(pos_updates))

\* Mutant: the reader is dropped but the file is kept.
remove_stale_keeps_file(s, stale_generation) ==
    [err |-> IF stale_generation \in s.files THEN Ok ELSE IoError,
     s |-> [s EXCEPT !.readers = @ \ {stale_generation}]]

\* kv.rs:308-311 for one stale generation: drop the reader, remove the file.
\* fs::remove_file fails when the file does not exist.
remove_stale(s, stale_generation) ==
    [err |-> IF stale_generation \in s.files THEN Ok ELSE IoError,
     s |-> [s EXCEPT !.readers = @ \ {stale_generation},
                     !.files = @ \ {stale_generation}]]

\* kv.rs:306-312 over a list of stale generations.
RECURSIVE remove_stale_all(_, _)

remove_stale_next(list, r) ==
    IF r.err # Ok THEN r ELSE remove_stale_all(r.s, Tail(list))

remove_stale_all(s, list) ==
    IF list = <<>> THEN [err |-> Ok, s |-> s]
    ELSE remove_stale_next(list, remove_stale(s, Head(list)))

\* Mutant: the compaction generation itself counts as stale.
stale_generations_through_compaction(s, compaction_generation) ==
    {g \in s.readers : g <= compaction_generation}

\* Mutant: the generation that was current when compaction began is spared.
stale_generations_spares_current(s, compaction_generation) ==
    {g \in s.readers : g < compaction_generation - 1}

\* kv.rs:297-304
stale_generations(s, compaction_generation) ==
    {g \in s.readers : g < compaction_generation}

\* Mutant: the generations are reserved and the files created, but the
\* writer stays on the file it had.
compact_new_files_keeps_writer(s) ==
    new_log_file(
        [new_log_file(s, s.current_generation + 2)
           EXCEPT !.current_generation = @ + 2],
        s.current_generation + 1)

\* kv.rs:222-227: reserve the two generations and create their files.
compact_new_files(s) ==
    new_log_file(
        [new_log_file(s, s.current_generation + 2)
           EXCEPT !.current_generation = @ + 2,
                  !.writer = NewWriter(s.current_generation + 2)],
        s.current_generation + 1)

\* Mutant: the compaction file is not flushed before the index is repointed to
\* it.
compact_flush_late(s, compaction_generation, cw) == s

\* compaction_writer.flush(), also run when the BufWriter is dropped on an
\* early return.
compact_flush(s, compaction_generation, cw) ==
    [s EXCEPT !.logs = [@ EXCEPT ![compaction_generation] = @ \o cw.buf]]

\* Mutant: the counter is left as it is.
compact_done_keeps_counter(d) == d

\* kv.rs:314-316
compact_done(d) ==
    IF d.err # Ok THEN d
    ELSE [err |-> Ok, s |-> [d.s EXCEPT !.uncompacted = 0]]

\* kv.rs:296-312
compact_delete(s, compaction_generation) ==
    compact_done(remove_stale_all(s,
        sorted_geneeration_list(stale_generations(s, compaction_generation))))

\* Mutant: the safe point is set to the generation that was current when the
\* compaction began.
compact_publish_old_generation(s, compaction_generation, pos_updates) ==
    compact_delete(
        [s EXCEPT !.index = apply_pos_updates(@, pos_updates),
                  !.safe_point = compaction_generation - 1],
        compaction_generation)

\* kv.rs:286-294: the index is repointed, then the safe point is stored.
compact_publish(s, compaction_generation, pos_updates) ==
    compact_delete(
        [s EXCEPT !.index = apply_pos_updates(@, pos_updates),
                  !.safe_point = compaction_generation],
        compaction_generation)

\* kv.rs:284: flush, or the early return of a failed copy.
compact_copied(compaction_generation, c) ==
    IF c.err # Ok
    THEN [err |-> c.err, s |-> compact_flush(c.s, compaction_generation, c.cw)]
    ELSE compact_publish(compact_flush(c.s, compaction_generation, c.cw),
                         compaction_generation, c.cw.pos_updates)

\* KvStoreWriter::compact (kv.rs:216).  Returns [err, s].
compact(s) ==
    compact_copied(s.current_generation + 1,
        compact_copy(compact_new_files(s), s.current_generation + 1,
                     NewCompactionWriter, SortedKeys(DOMAIN s.index)))

\* ------------------------------------------------------------- set, remove
\* Mutant: the record stays in the BufWriter, the flush is missing.
write_record_not_flushed(s, bytes, sequence) ==
    [s EXCEPT !.current_sequence = sequence,
              !.writer.pos = @ + Len(bytes)]

\* Mutant: the record is written at the start of the file, over what the
\* file held.
write_record_from_start(s, bytes, sequence) ==
    [s EXCEPT !.current_sequence = sequence,
              !.logs = [@ EXCEPT ![s.writer.file] =
                           bytes \o SubSeq(@, Len(bytes) + 1, Len(@))],
              !.writer.pos = @ + Len(bytes)]

\* Mutant: the sequence counter is read but not advanced.
write_record_same_sequence(s, bytes, sequence) ==
    [s EXCEPT !.logs = [@ EXCEPT ![s.writer.file] = @ \o bytes],
              !.writer.pos = @ + Len(bytes)]

\* kv.rs:133-147 and 179-192: the sequence counter advances, the framed
\* record is written to the append handle and flushed.
write_record(s, bytes, sequence) ==
    [s EXCEPT !.current_sequence = sequence,
              !.logs = [@ EXCEPT ![s.writer.file] = @ \o bytes],
              !.writer.pos = @ + Len(bytes)]

\* Mutant: the index entry records offset 0 instead of the writer's pos.
set_index_pos_zero(s, key, pos) ==
    [s EXCEPT !.index = MapInsert(@, key,
                  CommandPos(s.current_generation, 0, s.writer.pos - pos)),
              !.uncompacted = @ + OldLen(s.index, key)]

\* kv.rs:150-161: the index entry of the record that started at pos.
set_index(s, key, pos) ==
    [s EXCEPT !.index = MapInsert(@, key,
                  CommandPos(s.current_generation, pos, s.writer.pos - pos)),
              !.uncompacted = @ + OldLen(s.index, key)]

\* kv.rs:133-161: everything before the threshold check.
set_append(s, key, value) ==
    set_index(
        write_record(s, Frame(KvsCommand_set(key, value, s.current_sequence + 1)),
                     s.current_sequence + 1),
        key, s.writer.pos)

\* Result of a write: [err, s, mid, compacted]; mid is the state when the
\* threshold check is made.
WriteResult(e, s, mid, compacted) ==
    [err |-> e, s |-> s, mid |-> mid, compacted |-> compacted]

maybe_compact_ran(s, c) == WriteResult(c.err, c.s, s, TRUE)

\* kv.rs:163-167 and 205-209: compact when over the threshold.
maybe_compact(s) ==
    IF s.uncompacted > COMPACTION_THRESHOLD
    THEN maybe_compact_ran(s, compact(s))
    ELSE WriteResult(Ok, s, s, FALSE)

\* KvStoreWriter::set (kv.rs:132)
set(s, key, value) == maybe_compact(set_append(s, key, value))

\* Mutant: the Remove record is written but the index entry stays.
remove_index_keeps_entry(s, key) ==
    [s EXCEPT !.uncompacted = @ + OldLen(s.index, key)]

\* kv.rs:194-203: the index entry goes, its length is added to uncompacted.
remove_index(s, key) ==
    [s EXCEPT !.index = MapRemove(@, key),
              !.uncompacted = @ + OldLen(s.index, key)]

\* kv.rs:179-203: everything between the contains_key test and the
\* threshold check.
remove_append(s, key) ==
    remove_index(
        write_record(s, Frame(KvsCommand_remove(key, s.current_sequence + 1)),
                     s.current_sequence + 1),
        key)

\* Mutant: the Remove record is appended before the key is looked up.
remove_writes_first(s, key) ==
    IF key \in DOMAIN s.index
    THEN maybe_compact(remove_append(s, key))
    ELSE WriteResult(KeyNotFound,
             write_record(s, Frame(KvsCommand_remove(key, s.current_sequence + 1)),
                          s.current_sequence + 1),
             s, FALSE)

\* KvStoreWriter::remove (kv.rs:177)
remove(s, key) ==
    IF key \in DOMAIN s.index
    THEN maybe_compact(remove_append(s, key))
    ELSE WriteResult(KeyNotFound, s, s, FALSE)

\* ------------------------------------------------------------ SledKvsEngine
\* sled.rs over a sled::Db, which is an ordered map from byte strings to
\* byte strings.  Each operation returns [ret, db].

\* String::from_utf8 on the bytes of the model's strings (ASCII).
from_utf8(bytes) == \A i \in 1..Len(bytes) : bytes[i] < 128

\* sled.rs:23-27
sled_set(db, key, value) ==
    [ret |-> Err(Ok), db |-> MapInsert(db, key, value)]

\* sled.rs:29-37
sled_get(db, key) ==
    [ret |-> IF key \notin DOMAIN db THEN None
             ELSE IF from_utf8(db[key]) THEN Some(db[key])
             ELSE Err("FromUtf8Error"),
     db |-> db]

\* sled.rs:39-43
sled_remove(db, key) == [ret |-> Err(Ok), db |-> MapRemove(db, key)]

\* ------------------------------------------------------------ wire protocol
\* A message is a 4-byte big-endian length followed by the payload.  The
\* payload is the bincode serialization of a Request or of one of the three
\* response enums: the variant index, then the fields, a string as its
\* length followed by its bytes, an Option as 0 or 1 followed by the value.
\* Variant indices and string lengths take one byte here.

\* u32::to_be_bytes
to_be_bytes(n) ==
    <<(n \div 16777216) % 256, (n \div 65536) % 256, (n \div 256) % 256,
      n % 256>>

\* u32::from_be_bytes
from_be_bytes(b) == 16777216 * b[1] + 65536 * b[2] + 256 * b[3] + b[4]

Request_Get(key) == [type |-> "Get", key |-> key, value |-> <<>>]
Request_Set(key, value) == [type |-> "Set", key |-> key, value |-> value]
Request_Remove(key) == [type |-> "Remove", key |-> key, value |-> <<>>]

serialize_string(s) == <<Len(s)>> \o s

\* bincode::serialize of a Request
serialize_request(request) ==
    CASE request.type = "Get" -> <<0>> \o serialize_string(request.key)
      [] request.type = "Set" ->
            <<1>> \o serialize_string(request.key)
                 \o serialize_string(request.value)
      [] OTHER -> <<2>> \o serialize_string(request.key)

\* bincode::deserialize of a Request; bytes after the value are ignored.
deserialize_request(b) ==
    IF Len(b) < 2 \/ b[1] > 2 \/ Len(b) < 2 + b[2] THEN [ok |-> FALSE]
    ELSE IF b[1] = 0
    THEN [ok |-> TRUE, request |-> Request_Get(SubSeq(b, 3, 2 + b[2]))]
    ELSE IF b[1] = 2
    THEN [ok |-> TRUE, request |-> Request_Remove(SubSeq(b, 3, 2 + b[2]))]
    ELSE IF Len(b) < 3 + b[2] \/ Len(b) < 3 + b[2] + b[3 + b[2]]
    THEN [ok |-> FALSE]
    ELSE [ok |-> TRUE,
          request |-> Request_Set(SubSeq(b, 3, 2 + b[2]),
                          SubSeq(b, 4 + b[2], 3 + b[2] + b[3 + b[2]]))]

\* The three response enums: kind is the enum, and the value is Ok(...) or
\* Err(string).  ok holds the Ok arm's content: Some(v) or None for a
\* GetResponse, None (the unit) for the others.
ResponseOk(kind, content) ==
    [kind |-> kind, arm |-> "Ok", ok |-> content, err |-> <<>>]
ResponseErr(kind, msg) ==
    [kind |-> kind, arm |-> "Err", ok |-> None, err |-> msg]

\* bincode::serialize of a response
serialize_response(resp) ==
    IF resp.arm = "Err" THEN <<1>> \o serialize_string(resp.err)
    ELSE IF resp.kind # "GetResponse" THEN <<0>>
    ELSE IF resp.ok.kind = "Some"
    THEN <<0, 1>> \o serialize_string(resp.ok.value)
    ELSE <<0, 0>>

\* bincode::deserialize of a response as the enum `kind`
deserialize_response(kind, b) ==
    IF Len(b) < 1 \/ b[1] > 1 THEN [ok |-> FALSE]
    ELSE IF b[1] = 1
    THEN IF Len(b) < 2 \/ Len(b) < 2 + b[2] THEN [ok |-> FALSE]
         ELSE [ok |-> TRUE,
               resp |-> ResponseErr(kind, SubSeq(b, 3, 2 + b[2]))]
    ELSE IF kind # "GetResponse"
    THEN [ok |-> TRUE, resp |-> ResponseOk(kind, None)]
    ELSE IF Len(b) < 2 \/ b[2] > 1 THEN [ok |-> FALSE]
    ELSE IF b[2] = 0 THEN [ok |-> TRUE, resp |-> ResponseOk(kind, None)]
    ELSE IF Len(b) < 3 \/ Len(b) < 3 + b[3] THEN [ok |-> FALSE]
    ELSE [ok |-> TRUE,
          resp |-> ResponseOk(kind, Some(SubSeq(b, 4, 3 + b[3])))]

\* send_response and send_request: the bytes written and flushed.
WireFrame(payload) == to_be_bytes(Len(payload)) \o payload

\* The response enum that answers a request.
ResponseKind(request) ==
    CASE request.type = "Get" -> "GetResponse"
      [] request.type = "Set" -> "SetResponse"
      [] OTHER -> "RemoveResponse"

\* format!("{:?}", e) for the unit variants of KvsError: the variant's name
\* as ASCII bytes.
DebugText(e) ==
    CASE e = KeyNotFound -> <<75, 101, 121, 78, 111, 116, 70, 111, 117, 110, 100>>
      [] e = CorruptedData -> <<67, 111, 114, 114, 117, 112, 116, 101, 100, 68, 97, 116, 97>>
      [] OTHER -> <<85, 110, 101, 120, 112, 101, 99, 116, 101, 100, 67, 111, 109, 109, 97, 110, 100, 84, 121, 112, 101>>

\* ------------------------------------------------------------ measurements
RECURSIVE SumLen(_, _)
SumLen(logs, gens) ==
    IF gens = {} THEN 0
    ELSE LET g == CHOOSE x \in gens : TRUE
         IN Len(logs[g]) + SumLen(logs, gens \ {g})

\* Total size of the log files in the directory.
DiskUsage(s) == SumLen(s.logs, s.files)

RECURSIVE SumIndexLen(_, _)
SumIndexLen(index, ks) ==
    IF ks = {} THEN 0
    ELSE LET k == CHOOSE x \in ks : TRUE
         IN index[k].len + SumIndexLen(index, ks \ {k})

\* Sum of the lengths (prefix included) of the records of the live keys.
LiveBytes(s) == SumIndexLen(s.index, DOMAIN s.index)

GetAll(s) == [k \in Keys |-> get(s, k)]

\* ------------------------------------------------------------------- state
VARIABLES
    store,     \* the engine and its data directory (a store state, see above)
    op,        \* the last call and its result
    snap,      \* what the last call's compaction, if any, started from
    shadow,    \* per key, the last successful write of this history
    stamped,   \* sequence numbers stamped by this engine instance, in order
    wr,        \* the thread inside set/remove/compact: position and locals
    rd,        \* per reading thread: position in get and its locals
    treaders,  \* per reading thread: generations it holds a reader for
    hist,      \* per key: sequence numbers of the completed writes
    fault,     \* the damage done to a log file before the last open
    sled,      \* the SledKvsEngine given the same calls: its Db, last result
    srv,       \* the server: position in run/serve, connection, backlog
    conn,      \* per connection: the two byte streams and both ends' records
    mutex,     \* the writer mutex: "free" or the thread that holds it
    cur,       \* the writing thread whose position and locals wr holds
    parked     \* position and locals of the other writing thread

\* What only the actions of one specification change; it is in both of the
\* groups below, so that every other action leaves it alone.
netvars == <<srv, conn>>

thrvars == <<mutex, cur, parked>>

auxvars == <<fault, sled, netvars, thrvars>>

seqvars == <<op, snap, shadow, stamped, auxvars>>

concvars == <<wr, rd, treaders, hist, auxvars>>

vars == <<store, op, snap, shadow, stamped, wr, rd, treaders, hist, auxvars>>

NoSnap == [ran |-> FALSE, gets |-> [k \in Keys |-> None], usage |-> 0,
           live |-> 0, files |-> {}, files_at_call |-> {},
           compaction_generation |-> 0, safe_point |-> 0, logs |-> <<>>,
           records |-> EmptyMap, uncompacted |-> 0, sequence |-> 0]

\* For every key of the index, the bytes that its entry designates.
Designated(s) ==
    [k \in DOMAIN s.index |->
        SubSeq(s.logs[s.index[k].geneeration], s.index[k].pos + 1,
               s.index[k].pos + s.index[k].len)]

\* The snapshot of a compaction that starts in state mid, inside a call that
\* started in state s0.
SnapOf(s0, mid) ==
    [ran |-> TRUE, gets |-> GetAll(mid), usage |-> DiskUsage(mid),
     live |-> LiveBytes(mid), files |-> mid.files, files_at_call |-> s0.files,
     compaction_generation |-> mid.current_generation + 1,
     safe_point |-> mid.safe_point, logs |-> <<>>,
     records |-> Designated(mid), uncompacted |-> mid.uncompacted,
     sequence |-> mid.current_sequence]

Never == [kind |-> "never", value |-> <<>>]
Written(v) == [kind |-> "set", value |-> v]
Removed == [kind |-> "removed", value |-> <<>>]

\* The snapshot of an open: the directory it found, and what get gave
\* before the engine was dropped.
SnapOfOpen(s0) ==
    [NoSnap EXCEPT !.gets = GetAll(s0), !.files = s0.files,
                   !.logs = [g \in s0.files |-> s0.logs[g]],
                   !.sequence = s0.current_sequence]

\* The sequence number on the record that starts at offset pos of file g.
StampedAt(s, g, pos) == decode(read_frame(s.logs[g], pos).msg_bytes).cmd.sequence_number

Call(name, key, value, result) ==
    [name |-> name, key |-> key, value |-> value, result |-> result]

\* The threads that call get on their clone of the engine.
Threads == {"t1", "t2"}

\* The threads that call set and remove on their clone of the engine.
Writers == {"w1", "w2"}

\* The writing thread outside set/remove, its last call having returned ret;
\* expect is the state that the call, run without interruption, leaves.
WriterIdle(ret, expect) ==
    [pc |-> "idle", ret |-> ret, name |-> "", key |-> <<>>, sequence |-> 0,
     pos |-> 0, compaction_generation |-> 0, cw |-> NewCompactionWriter,
     keys |-> <<>>, stale |-> {}, expect |-> expect]

\* A reading thread outside get.
ReaderIdle ==
    [pc |-> "idle", key |-> <<>>, cmd_pos |-> CommandPos(0, 0, 0),
     floor |-> 0, seen |-> 0, rkey |-> <<>>, result |-> None]

\* The connections that clients make to the server's address.
Connections == {"c1", "c2"}

\* What a client may write as one message: the three requests, and a
\* payload that is no Request.
Payloads ==
    {serialize_request(Request_Get(<<1>>)),
     serialize_request(Request_Set(<<1>>, <<5>>)),
     serialize_request(Request_Remove(<<1>>)),
     <<9>>}

\* A connection before the client connects.  inbox and outbox are the bytes
\* in flight to the server and to the client; eof: the client has shut down
\* its sending side; reset: the connection is broken.  awaiting and results
\* are the client's: the response enums it still expects, and what its
\* calls returned.  reqs, engine and resps are the server's: the requests
\* it decoded, and for every response it wrote the engine's result and the
\* response; outcome is what serve returned.
NoConnection ==
    [state |-> "idle", inbox |-> <<>>, outbox |-> <<>>, eof |-> FALSE,
     reset |-> FALSE, sent |-> 0, awaiting |-> <<>>, results |-> <<>>,
     reqs |-> <<>>, engine |-> <<>>, resps |-> <<>>, outcome |-> ""]

\* The server in the accept loop of run, with the connections not yet
\* accepted; log is every request given to the engine so far, in order.
ServerAccepting(backlog, log) ==
    [pc |-> "accept", conn |-> "", backlog |-> backlog,
     request |-> Request_Get(<<>>), log |-> log]

NoFault == [kind |-> "none", geneeration |-> 0, at |-> 0, partial |-> FALSE]

Init ==
    /\ store = open({}, EmptyMap).s
    /\ fault = NoFault
    /\ sled = [db |-> EmptyMap, ret |-> Err(Ok)]
    /\ srv = ServerAccepting(<<>>, <<>>)
    /\ conn = [c \in Connections |-> NoConnection]
    /\ op = Call("open", <<>>, <<>>, Ok)
    /\ snap = NoSnap
    /\ shadow = [k \in Keys |-> Never]
    /\ stamped = <<>>
    /\ wr = WriterIdle(Ok, open({}, EmptyMap).s)
    /\ rd = [t \in Threads |-> ReaderIdle]
    /\ treaders = [t \in Threads |-> {}]
    /\ hist = [committed |-> [k \in Keys |-> 0], gone |-> [k \in Keys |-> 0]]
    /\ mutex = "free"
    /\ cur = "w1"
    /\ parked = WriterIdle(Ok, open({}, EmptyMap).s)

\* Room for one more write whose outcome is r, and for the two generations
\* of the compaction it may run.
CanWrite(s, r) ==
    /\ s.current_sequence < MaxSeq
    /\ r.compacted => s.current_generation + 2 <= MaxGen

SetReturns(key, value, r) ==
    /\ CanWrite(store, r)
    /\ store' = r.s
    /\ op' = Call("set", key, value, r.err)
    /\ snap' = IF r.compacted THEN SnapOf(store, r.mid) ELSE NoSnap
    /\ shadow' = IF r.err = Ok
                 THEN [shadow EXCEPT ![key] = Written(value)]
                 ELSE shadow
    /\ stamped' = Append(stamped,
                         StampedAt(r.mid, store.writer.file, store.writer.pos))
    /\ UNCHANGED concvars

Set(key, value) == SetReturns(key, value, set(store, key, value))

RemoveReturns(key, r) ==
    /\ key \in DOMAIN store.index => CanWrite(store, r)
    /\ store' = r.s
    /\ op' = Call("remove", key, <<>>, r.err)
    /\ snap' = IF r.compacted THEN SnapOf(store, r.mid) ELSE NoSnap
    /\ shadow' = IF r.err = Ok
                 THEN [shadow EXCEPT ![key] = Removed]
                 ELSE shadow
    /\ stamped' = IF r.err = KeyNotFound THEN stamped
                  ELSE Append(stamped,
                         StampedAt(r.mid, store.writer.file, store.writer.pos))
    /\ UNCHANGED concvars

Remove(key) == RemoveReturns(key, remove(store, key))

GetReturns(key, r) ==
    /\ op' = Call("get", key, r.value, r.kind)
    /\ snap' = NoSnap
    /\ UNCHANGED <<store, shadow, stamped>>
    /\ UNCHANGED concvars

Get(key) == GetReturns(key, get(store, key))

CompactReturns(r) ==
    /\ store' = r.s
    /\ op' = Call("compact", <<>>, <<>>, r.err)
    /\ snap' = SnapOf(store, store)
    /\ UNCHANGED <<shadow, stamped>>
    /\ UNCHANGED concvars

\* A direct call of KvStoreWriter::compact.
Compact ==
    /\ store.current_generation + 2 <= MaxGen
    /\ CompactReturns(compact(store))

ReopenReturns(r) ==
    /\ store' = r.s
    /\ op' = Call("open", <<>>, <<>>, r.err)
    /\ snap' = SnapOfOpen(store)
    /\ stamped' = <<>>
    /\ UNCHANGED shadow
    /\ UNCHANGED concvars

\* The engine is dropped and KvStore::open runs on the same directory.
Reopen ==
    /\ store.current_generation + 1 <= MaxOpenGen
    /\ ReopenReturns(open(store.files, store.logs))

Next ==
    \/ \E key \in Keys, value \in Values : Set(key, value)
    \/ \E key \in Keys : Remove(key)
    \/ \E key \in Keys : Get(key)
    \/ Compact
    \/ Reopen

Spec == Init /\ [][Next]_vars

\* ------------------------------------------ two engines given the same calls
\* A KvStore and a SledKvsEngine, both opened empty, receive the same
\* sequence of get/set/remove calls.

BothSetReturns(key, value, r) ==
    /\ CanWrite(store, r)
    /\ store' = r.s
    /\ op' = Call("set", key, value, r.err)
    /\ sled' = sled_set(sled.db, key, value)
    /\ UNCHANGED <<snap, shadow, stamped, wr, rd, treaders, hist, fault, netvars,
                   thrvars>>

BothSet(key, value) == BothSetReturns(key, value, set(store, key, value))

BothRemoveReturns(key, r) ==
    /\ key \in DOMAIN store.index => CanWrite(store, r)
    /\ store' = r.s
    /\ op' = Call("remove", key, <<>>, r.err)
    /\ sled' = sled_remove(sled.db, key)
    /\ UNCHANGED <<snap, shadow, stamped, wr, rd, treaders, hist, fault, netvars,
                   thrvars>>

BothRemove(key) == BothRemoveReturns(key, remove(store, key))

BothGetReturns(key, r) ==
    /\ op' = Call("get", key, r.value, r.kind)
    /\ sled' = sled_get(sled.db, key)
    /\ UNCHANGED <<store, snap, shadow, stamped, wr, rd, treaders, hist, fault, netvars,
                   thrvars>>

BothGet(key) == BothGetReturns(key, get(store, key))

NextE ==
    \/ \E key \in Keys, value \in Values : BothSet(key, value)
    \/ \E key \in Keys : BothRemove(key)
    \/ \E key \in Keys : BothGet(key)

SpecE == Init /\ [][NextE]_vars

\* -------------------------------------------------- server and its clients
\* KvsServer::run over a KvStore, and clients that connect, write messages
\* (well-formed or not), read responses, close or break their connection.

nonnet == <<op, snap, shadow, stamped, wr, rd, treaders, hist, fault, sled,
            thrvars>>

\* The client's end is connected and still sending.
Sending(c) ==
    /\ conn[c].state \in {"backlog", "serving"}
    /\ ~conn[c].eof /\ ~conn[c].reset

\* The number of messages the clients have sent.
RECURSIVE TotalSent(_)
TotalSent(cs) ==
    IF cs = {} THEN 0
    ELSE LET c == CHOOSE x \in cs : TRUE
         IN conn[c].sent + TotalSent(cs \ {c})

\* KvsClient::connect (client.rs:13-20)
Connect(c) ==
    /\ conn[c].state = "idle"
    /\ conn' = [conn EXCEPT ![c].state = "backlog"]
    /\ srv' = [srv EXCEPT !.backlog = Append(@, c)]
    /\ UNCHANGED <<store, nonnet>>

ClientSendDone(c, payload, d) ==
    conn' = [conn EXCEPT
               ![c].inbox = @ \o WireFrame(payload),
               ![c].sent = @ + 1,
               ![c].awaiting = IF d.ok
                               THEN Append(@, ResponseKind(d.request))
                               ELSE @]

\* KvsClient::send_request (client.rs:22-32), or any other client's write
\* of one framed message.
ClientSend(c, payload) ==
    /\ Sending(c) /\ TotalSent(Connections) < MaxReq
    /\ ClientSendDone(c, payload, deserialize_request(payload))
    /\ UNCHANGED <<store, srv, nonnet>>

\* The client writes the first n bytes of a message and closes.
ClientSendPartial(c, n) ==
    /\ Sending(c) /\ TotalSent(Connections) < MaxReq
    /\ conn' = [conn EXCEPT
                  ![c].inbox = @ \o SubSeq(WireFrame(serialize_request(
                                               Request_Get(<<1>>))), 1, n),
                  ![c].sent = @ + 1,
                  ![c].eof = TRUE]
    /\ UNCHANGED <<store, srv, nonnet>>

\* The client closes after a whole message, or before any.
ClientClose(c) ==
    /\ Sending(c)
    /\ conn' = [conn EXCEPT ![c].eof = TRUE]
    /\ UNCHANGED <<store, srv, nonnet>>

\* The connection breaks: the server's reads and writes fail from now on.
ClientReset(c) ==
    /\ Sending(c)
    /\ conn' = [conn EXCEPT ![c].reset = TRUE]
    /\ UNCHANGED <<store, srv, nonnet>>

\* The two read_exact calls of serve and of receive_request on the bytes
\* that have arrived: the length, then the payload.
read_message_payload(bytes, len) ==
    IF Len(bytes) < 4 + len
    THEN [st |-> "short_payload", payload |-> <<>>, rest |-> bytes]
    ELSE [st |-> "ok", payload |-> SubSeq(bytes, 5, 4 + len),
          rest |-> SubSeq(bytes, 5 + len, Len(bytes))]

read_message(bytes) ==
    IF Len(bytes) < 4
    THEN [st |-> "short", payload |-> <<>>, rest |-> bytes]
    ELSE read_message_payload(bytes, from_be_bytes(SubSeq(bytes, 1, 4)))

\* client.rs:48-76: what get, set or remove returns for a response.
client_result(d) ==
    IF ~d.ok THEN Err(Serialization)
    ELSE IF d.resp.arm = "Err"
    THEN [kind |-> "StringError", value |-> d.resp.err]
    ELSE IF d.resp.kind = "GetResponse" THEN d.resp.ok
    ELSE Err(Ok)

ClientReceiveDone(c, m) ==
    /\ m.st = "ok"
    /\ conn' = [conn EXCEPT
                  ![c].outbox = m.rest,
                  ![c].awaiting = Tail(@),
                  ![c].results = Append(@, client_result(
                      deserialize_response(Head(conn[c].awaiting), m.payload)))]

\* KvsClient::receive_request (client.rs:34-46) for the oldest request that
\* has no response yet.
ClientReceive(c) ==
    /\ conn[c].awaiting # <<>>
    /\ ClientReceiveDone(c, read_message(conn[c].outbox))
    /\ UNCHANGED <<store, srv, nonnet>>

\* Mutant: run returns the error of serve (`self.serve(stream)?`).
ServeEnds_stops_server(c, outcome) ==
    /\ conn' = [conn EXCEPT ![c].state = "done", ![c].outcome = outcome]
    /\ srv' = IF outcome = Ok THEN ServerAccepting(srv.backlog, srv.log)
              ELSE [srv EXCEPT !.pc = "stopped", !.conn = ""]

\* serve returns: run logs an error, if any, and goes on to the next
\* connection (server.rs:22-33).
ServeEnds(c, outcome) ==
    /\ conn' = [conn EXCEPT ![c].state = "done", ![c].outcome = outcome]
    /\ srv' = ServerAccepting(srv.backlog, srv.log)

AcceptDone(c) ==
    IF conn[c].reset
    THEN /\ conn' = [conn EXCEPT ![c].state = "done", ![c].outcome = IoError]
         /\ srv' = ServerAccepting(Tail(srv.backlog), srv.log)
    ELSE /\ conn' = [conn EXCEPT ![c].state = "serving"]
         /\ srv' = [srv EXCEPT !.pc = "read", !.conn = c,
                                !.backlog = Tail(@)]

\* Mutant: the listener hands over the next connection while serve is still
\* on the one before (a server with one thread per connection).
Accept_while_serving ==
    /\ srv.pc \in {"accept", "read"} /\ srv.backlog # <<>>
    /\ AcceptDone(Head(srv.backlog))
    /\ UNCHANGED <<store, nonnet>>

\* server.rs:22-25 and 39-41: the next connection; peer_addr fails on a
\* broken one.
Accept ==
    /\ srv.pc = "accept" /\ srv.backlog # <<>>
    /\ AcceptDone(Head(srv.backlog))
    /\ UNCHANGED <<store, nonnet>>

\* Mutant: the request is decoded and the next one is read at once.
ServeReadDecoded_skips_response(c, m, d) ==
    IF ~d.ok THEN ServeEnds(c, Serialization)
    ELSE /\ conn' = [conn EXCEPT ![c].inbox = m.rest,
                                  ![c].reqs = Append(@, d.request)]
         /\ srv' = [srv EXCEPT !.request = d.request]

\* server.rs:71
ServeReadDecoded(c, m, d) ==
    IF ~d.ok THEN ServeEnds(c, Serialization)
    ELSE /\ conn' = [conn EXCEPT ![c].inbox = m.rest,
                                  ![c].reqs = Append(@, d.request)]
         /\ srv' = [srv EXCEPT !.pc = "respond", !.request = d.request]

\* server.rs:54-68: the reads block until the bytes or the end of the
\* stream arrive.
ServeReadMessage(c, m) ==
    CASE conn[c].reset -> ServeEnds(c, IoError)
      [] m.st = "ok" -> ServeReadDecoded(c, m, deserialize_request(m.payload))
      [] m.st = "short" -> conn[c].eof /\ ServeEnds(c, Ok)
      [] OTHER -> conn[c].eof /\ ServeEnds(c, IoError)

\* One message read by serve (server.rs:52-71).
ServeRead ==
    /\ srv.pc = "read"
    /\ ServeReadMessage(srv.conn, read_message(conn[srv.conn].inbox))
    /\ UNCHANGED <<store, nonnet>>

\* server.rs:76-79
response_of_get(s, r) ==
    [s |-> s, panicked |-> r.kind = Panic,
     err |-> IF r.kind \in {"Some", "None"} THEN Ok ELSE r.kind,
     resp |-> IF r.kind \in {"Some", "None"}
              THEN ResponseOk("GetResponse", r)
              ELSE ResponseErr("GetResponse", DebugText(r.kind))]

\* server.rs:83-86 and 90-93
response_of_write(kind, r) ==
    [s |-> r.s, panicked |-> r.err = Panic, err |-> r.err,
     resp |-> IF r.err = Ok THEN ResponseOk(kind, None)
              ELSE ResponseErr(kind, DebugText(r.err))]

\* server.rs:74-95: the engine's operation and the response built from its
\* result.
engine_call(s, request) ==
    CASE request.type = "Get" -> response_of_get(s, get(s, request.key))
      [] request.type = "Set" ->
            response_of_write("SetResponse",
                              set(s, request.key, request.value))
      [] OTHER -> response_of_write("RemoveResponse", remove(s, request.key))

\* Mutant: an engine error is returned from serve (`self.engine.get(key)?`).
ServeResponds_returns_engine_error(c, r) ==
    /\ store' = r.s
    /\ IF r.err # Ok \/ conn[c].reset
       THEN /\ conn' = [conn EXCEPT
                          ![c].state = "done",
                          ![c].outcome = IF r.err # Ok THEN r.err ELSE IoError]
            /\ srv' = ServerAccepting(srv.backlog,
                                      Append(srv.log, srv.request))
       ELSE /\ conn' = [conn EXCEPT
                          ![c].outbox = @ \o WireFrame(serialize_response(r.resp)),
                          ![c].engine = Append(@, r.err),
                          ![c].resps = Append(@, r.resp)]
            /\ srv' = [srv EXCEPT !.pc = "read",
                                  !.log = Append(@, srv.request)]

\* server.rs:43-50 and 80, 87, 94: send_response.
ServeResponds(c, r) ==
    /\ store' = r.s
    /\ IF r.panicked
       THEN /\ srv' = [srv EXCEPT !.pc = "panicked",
                                  !.log = Append(@, srv.request)]
            /\ UNCHANGED conn
       ELSE IF conn[c].reset
       THEN /\ conn' = [conn EXCEPT ![c].state = "done",
                                    ![c].outcome = IoError]
            /\ srv' = ServerAccepting(srv.backlog,
                                      Append(srv.log, srv.request))
       ELSE /\ conn' = [conn EXCEPT
                          ![c].outbox = @ \o WireFrame(serialize_response(r.resp)),
                          ![c].engine = Append(@, r.err),
                          ![c].resps = Append(@, r.resp)]
            /\ srv' = [srv EXCEPT !.pc = "read",
                                  !.log = Append(@, srv.request)]

\* One request dispatched and answered by serve (server.rs:74-98).
ServeRespond ==
    /\ srv.pc = "respond"
    /\ ServeResponds(srv.conn, engine_call(store, srv.request))
    /\ UNCHANGED nonnet

NextS ==
    \/ \E c \in Connections : Connect(c)
    \/ \E c \in Connections, payload \in Payloads : ClientSend(c, payload)
    \/ \E c \in Connections, n \in {2, 5} : ClientSendPartial(c, n)
    \/ \E c \in Connections : ClientClose(c)
    \/ \E c \in Connections : ClientReset(c)
    \/ \E c \in Connections : ClientReceive(c)
    \/ Accept
    \/ ServeRead
    \/ ServeRespond

SpecS == Init /\ [][NextS]_vars

\* The engine after the requests of log, given to it in order.
RECURSIVE Replay(_, _)
Replay(s, log) ==
    IF log = <<>> THEN s
    ELSE Replay(engine_call(s, Head(log)).s, Tail(log))

\* The number of requests the server has decoded.
RECURSIVE TotalReqs(_)
TotalReqs(cs) ==
    IF cs = {} THEN 0
    ELSE LET c == CHOOSE x \in cs : TRUE
         IN Len(conn[c].reqs) + TotalReqs(cs \ {c})

\* The bytes of the responses from the i-th on.
RECURSIVE FramesFrom(_, _)
FramesFrom(resps, i) ==
    IF i > Len(resps) THEN <<>>
    ELSE WireFrame(serialize_response(resps[i])) \o FramesFrom(resps, i + 1)

\* ------------------------------------------- recovery of a damaged directory
\* The engine is dropped, one log file is damaged while no engine runs (a
\* crash that lost the tail of the file being written, or a corrupted byte
\* in any file), and KvStore::open runs on the directory.  A directory is
\* damaged once.

\* The offsets of bytes at which the replay of a file stands between two
\* records: 0, and the end of every complete record.
RECURSIVE Boundaries(_, _)

Boundaries_next(bytes, pos, f) ==
    IF f.st = "ok"
    THEN {pos} \cup Boundaries(bytes, pos + 4 + Len(f.msg_bytes))
    ELSE {pos}

Boundaries(bytes, pos) == Boundaries_next(bytes, pos, read_frame(bytes, pos))

\* The start of the record that holds the byte at offset n.
RecordStart(bytes, n) ==
    CHOOSE p \in Boundaries(bytes, 0) :
        p <= n /\ \A q \in Boundaries(bytes, 0) : q <= n => q <= p

\* The positions (from 1) of the bytes whose change leaves a record that
\* still decodes but whose checksum no longer matches: the checksum byte
\* and the last byte of the key or value.
FlipTargets(bytes) ==
    {p + 8 : p \in Boundaries(bytes, 0) \ {Len(bytes)}} \cup
    {p : p \in Boundaries(bytes, 0) \ {0}}

\* An engine is running: the last open, if it was the last call, succeeded.
Running == ~(op.name = "open" /\ op.result # Ok)

OpenDamagedReturns(f, r) ==
    /\ store' = r.s
    /\ op' = Call("open", <<>>, <<>>, r.err)
    /\ snap' = [NoSnap EXCEPT !.gets = GetAll(store)]
    /\ stamped' = <<>>
    /\ fault' = f
    /\ UNCHANGED <<shadow, wr, rd, treaders, hist, sled, netvars, thrvars>>

\* The start of the last record of a file that is not empty.
LastRecordStart(bytes) == RecordStart(bytes, Len(bytes) - 1)

\* <g>.log, the file the engine was appending to, loses the bytes from
\* offset n of its last record on, then KvStore::open.
OpenTruncated(g, n) ==
    /\ Running /\ fault = NoFault
    /\ store.current_generation + 1 <= MaxOpenGen
    /\ g = store.writer.file /\ n < Len(store.logs[g])
    /\ n >= LastRecordStart(store.logs[g])
    /\ OpenDamagedReturns(
           [kind |-> "truncated", geneeration |-> g, at |-> n,
            partial |-> n \notin Boundaries(store.logs[g], 0)],
           open(store.files,
                [store.logs EXCEPT ![g] = SubSeq(@, 1, n)]))

\* The byte at position i of <g>.log is changed, then KvStore::open.
OpenFlipped(g, i) ==
    /\ Running /\ fault = NoFault
    /\ store.current_generation + 1 <= MaxOpenGen
    /\ g \in store.files /\ i \in FlipTargets(store.logs[g])
    /\ OpenDamagedReturns(
           [kind |-> "flipped", geneeration |-> g, at |-> i, partial |-> FALSE],
           open(store.files,
                [store.logs EXCEPT ![g][i] = (@ + 1) % 256]))

\* set and remove on the engine that the last open returned.
RunningSet(key, value) == Running /\ Set(key, value)

RunningRemove(key) == Running /\ Remove(key)

NextR ==
    \/ \E key \in Keys, value \in Values : RunningSet(key, value)
    \/ \E key \in Keys : RunningRemove(key)
    \/ \E g \in store.files, n \in 0..MaxFileLen : OpenTruncated(g, n)
    \/ \E g \in store.files, i \in 1..MaxFileLen : OpenFlipped(g, i)

SpecR == Init /\ [][NextR]_vars

\* ------------------------------------- get of a record that is not a Set
\* The record that a key's index entry points to is replaced, in the file,
\* by another well-formed record, and get is called for the key.

RecordKinds == {"set", "remove", "empty", "checksum"}

\* The record put in the place of the Set with sequence number sequence:
\* another Set, a Remove, a message whose command is absent (its checksum
\* that of no payload), or a Set whose stored checksum is off by one.
ForeignRecord(kind, key, value, sequence) ==
    CASE kind = "set" -> KvsCommand_set(key, value, sequence)
      [] kind = "remove" -> KvsCommand_remove(key, sequence)
      [] kind = "empty" ->
            [KvsCommand_remove(key, sequence)
               EXCEPT !.command = NoCommand, !.checksum = Crc32(<<>>, 7)]
      [] OTHER ->
            [KvsCommand_set(key, value, sequence)
               EXCEPT !.checksum = (@ + 1) % 251]

\* The file with the len bytes at offset pos replaced by bytes.
Replaced(file, pos, len, bytes) ==
    SubSeq(file, 1, pos) \o bytes \o SubSeq(file, pos + len + 1, Len(file))

GetForeignReturns(key, kind, s) ==
    /\ store' = s
    /\ op' = Call("get", key, get(s, key).value, get(s, key).kind)
    /\ snap' = NoSnap
    /\ fault' = [kind |-> kind, geneeration |-> store.index[key].geneeration,
                 at |-> store.index[key].pos, partial |-> FALSE]
    /\ UNCHANGED <<shadow, stamped, wr, rd, treaders, hist, sled, netvars,
                   thrvars>>

GetForeign(key, kind, value) ==
    /\ fault = NoFault
    /\ key \in DOMAIN store.index
    /\ GetForeignReturns(key, kind,
           [store EXCEPT !.logs[store.index[key].geneeration] =
               Replaced(@, store.index[key].pos, store.index[key].len,
                   Frame(ForeignRecord(kind, key, value,
                       StampedAt(store, store.index[key].geneeration,
                                 store.index[key].pos))))])

\* The calls on the engine whose files are as it wrote them.
IntactSet(key, value) == fault = NoFault /\ Set(key, value)

IntactRemove(key) == fault = NoFault /\ Remove(key)

IntactGet(key) == fault = NoFault /\ Get(key)

NextD ==
    \/ \E key \in Keys, value \in Values : IntactSet(key, value)
    \/ \E key \in Keys : IntactRemove(key)
    \/ \E key \in Keys : IntactGet(key)
    \/ \E key \in Keys, kind \in RecordKinds, value \in Values :
          GetForeign(key, kind, value)

SpecD == Init /\ [][NextD]_vars

\* ----------------------------------------------- threads sharing one engine
\* One thread at a time holds the writer mutex and runs set or remove, with
\* the compaction it may trigger, step by step; the threads of Threads run
\* get on their clones, each with its own reader map, step by step.

\* kv.rs:132-147, 177-192: the call starts; remove of an absent key returns
\* at once, otherwise the record is written and flushed.
WStartSet(key, value) ==
    /\ wr.pc = "idle"
    /\ CanWrite(store, set(store, key, value))
    /\ store' = write_record(store,
                    Frame(KvsCommand_set(key, value, store.current_sequence + 1)),
                    store.current_sequence + 1)
    /\ wr' = [WriterIdle(Ok, set(store, key, value).s)
                EXCEPT !.pc = "index", !.name = "set",
                       !.key = key, !.sequence = store.current_sequence + 1,
                       !.pos = store.writer.pos]
    /\ UNCHANGED <<rd, treaders, hist, seqvars>>

WStartRemove(key) ==
    /\ wr.pc = "idle"
    /\ key \in DOMAIN store.index
    /\ CanWrite(store, remove(store, key))
    /\ store' = write_record(store,
                    Frame(KvsCommand_remove(key, store.current_sequence + 1)),
                    store.current_sequence + 1)
    /\ wr' = [WriterIdle(Ok, remove(store, key).s)
                EXCEPT !.pc = "index", !.name = "remove",
                       !.key = key, !.sequence = store.current_sequence + 1,
                       !.pos = store.writer.pos]
    /\ UNCHANGED <<rd, treaders, hist, seqvars>>

WRemoveAbsent(key) ==
    /\ wr.pc = "idle"
    /\ key \notin DOMAIN store.index
    /\ wr' = WriterIdle(KeyNotFound, remove(store, key).s)
    /\ UNCHANGED <<store, rd, treaders, hist, seqvars>>

\* The call returns ret; a call that returns Ok is a completed write.
WReturn(ret) ==
    /\ wr' = WriterIdle(ret, wr.expect)
    /\ hist' = IF ret = Ok
               THEN [hist EXCEPT !.committed[wr.key] = wr.sequence]
               ELSE hist

\* kv.rs:149-167, 194-209: the index changes, then the threshold check.
WIndexDone(s) ==
    /\ store' = s
    /\ IF s.uncompacted > COMPACTION_THRESHOLD
       THEN /\ wr' = [wr EXCEPT !.pc = "new_files"]
            /\ hist' = IF wr.name = "remove"
                       THEN [hist EXCEPT !.gone[wr.key] = wr.sequence]
                       ELSE hist
       ELSE /\ wr' = WriterIdle(Ok, wr.expect)
            /\ hist' = [hist EXCEPT
                          !.committed[wr.key] = wr.sequence,
                          !.gone[wr.key] = IF wr.name = "remove"
                                           THEN wr.sequence ELSE @]
    /\ UNCHANGED <<rd, treaders, seqvars>>

WIndex ==
    /\ wr.pc = "index"
    /\ WIndexDone(IF wr.name = "set" THEN set_index(store, wr.key, wr.pos)
                  ELSE remove_index(store, wr.key))

\* kv.rs:222-232
CNewFiles ==
    /\ wr.pc = "new_files"
    /\ store' = compact_new_files(store)
    /\ wr' = [wr EXCEPT !.pc = "copy",
                        !.compaction_generation = store.current_generation + 1,
                        !.cw = NewCompactionWriter,
                        !.keys = SortedKeys(DOMAIN store.index)]
    /\ UNCHANGED <<rd, treaders, hist, seqvars>>

CCopyDone(r) ==
    IF r.err = Ok
    THEN /\ store' = [store EXCEPT !.readers = r.readers]
         /\ wr' = [wr EXCEPT !.cw = r.cw, !.keys = Tail(@)]
         /\ UNCHANGED hist
    ELSE /\ store' = compact_flush([store EXCEPT !.readers = r.readers],
                                   wr.compaction_generation, r.cw)
         /\ WReturn(r.err)

\* kv.rs:235-283, one iteration.
CCopy ==
    /\ wr.pc = "copy" /\ wr.keys # <<>>
    /\ CCopyDone(compact_copy_one(store, wr.compaction_generation, wr.cw,
                                  Head(wr.keys)))
    /\ UNCHANGED <<rd, treaders, seqvars>>

\* kv.rs:284
CFlush ==
    /\ wr.pc = "copy" /\ wr.keys = <<>>
    /\ store' = compact_flush(store, wr.compaction_generation, wr.cw)
    /\ wr' = [wr EXCEPT !.pc = "index_update", !.cw.buf = <<>>]
    /\ UNCHANGED <<rd, treaders, hist, seqvars>>

\* kv.rs:287-289, one insert.
CIndexUpdate ==
    /\ wr.pc = "index_update" /\ wr.cw.pos_updates # <<>>
    /\ store' = [store EXCEPT !.index =
                     apply_pos_updates(@, <<Head(wr.cw.pos_updates)>>)]
    /\ wr' = [wr EXCEPT !.cw.pos_updates = Tail(@)]
    /\ UNCHANGED <<rd, treaders, hist, seqvars>>

\* kv.rs:291-304
CSafePoint ==
    /\ wr.pc = "index_update" /\ wr.cw.pos_updates = <<>>
    /\ store' = [store EXCEPT !.safe_point = wr.compaction_generation]
    /\ wr' = [wr EXCEPT !.pc = "delete",
                        !.stale = stale_generations(store,
                                      wr.compaction_generation)]
    /\ UNCHANGED <<rd, treaders, hist, seqvars>>

CDeleteDone(g, r) ==
    /\ store' = r.s
    /\ IF r.err = Ok
       THEN wr' = [wr EXCEPT !.stale = @ \ {g}] /\ UNCHANGED hist
       ELSE WReturn(r.err)

\* kv.rs:306-312, one stale generation; the HashMap gives them in any order.
CDelete ==
    /\ wr.pc = "delete"
    /\ \E g \in wr.stale : CDeleteDone(g, remove_stale(store, g))
    /\ UNCHANGED <<rd, treaders, seqvars>>

\* kv.rs:314-316, and the Ok(()) of the write that ran the compaction.
CDone ==
    /\ wr.pc = "delete" /\ wr.stale = {}
    /\ store' = compact_done([err |-> Ok, s |-> store]).s
    /\ WReturn(Ok)
    /\ UNCHANGED <<rd, treaders, seqvars>>

\* kv.rs:404: the index lookup.
GBegin(t, key) ==
    /\ rd[t].pc \in {"idle", "done"}
    /\ rd' = [rd EXCEPT ![t] =
                IF key \in DOMAIN store.index
                THEN [ReaderIdle EXCEPT !.pc = "reader", !.key = key,
                          !.cmd_pos = store.index[key],
                          !.floor = hist.committed[key]]
                ELSE [ReaderIdle EXCEPT !.pc = "done", !.key = key,
                          !.floor = hist.committed[key],
                          !.seen = hist.gone[key], !.rkey = key,
                          !.result = None]]
    /\ UNCHANGED <<store, wr, treaders, hist, seqvars>>

\* The thread's reader for a generation it holds none for: the file is
\* opened if it is still in the directory.
open_reader(readers, files, g) ==
    IF g \in files THEN readers \cup {g} ELSE readers

\* kv.rs:405-408: the reader for the entry's generation,
\* expect("Cannot find log reader") when there is none.
GReader(t) ==
    /\ rd[t].pc = "reader"
    /\ treaders' = [treaders EXCEPT ![t] =
                        open_reader(@, store.files, rd[t].cmd_pos.geneeration)]
    /\ rd' = [rd EXCEPT ![t] =
                IF rd[t].cmd_pos.geneeration \in treaders'[t]
                THEN [@ EXCEPT !.pc = "seek"]
                ELSE [@ EXCEPT !.pc = "done", !.result = Err(Panic)]]
    /\ UNCHANGED <<store, wr, hist, seqvars>>

\* Mutant: the seek waits until no thread holds the writer mutex.
GSeek_waits_for_writer(t) ==
    /\ mutex = "free"
    /\ rd[t].pc = "seek"
    /\ rd' = [rd EXCEPT ![t].pc = "read"]
    /\ UNCHANGED <<store, wr, treaders, hist, seqvars>>

\* kv.rs:409
GSeek(t) ==
    /\ rd[t].pc = "seek"
    /\ rd' = [rd EXCEPT ![t].pc = "read"]
    /\ UNCHANGED <<store, wr, treaders, hist, seqvars>>

\* seen and rkey are the sequence number and the key of the record read.
GReadDone(t, result, f) ==
    rd' = [rd EXCEPT ![t].pc = "done", ![t].result = result,
                     ![t].seen = IF result.kind = "Some"
                                 THEN decode(f.msg_bytes).cmd.sequence_number
                                 ELSE 0,
                     ![t].rkey = IF result.kind = "Some"
                                 THEN decode(f.msg_bytes).cmd.command.key
                                 ELSE <<>>]

\* What the thread's read at its entry's offset gives: get's result, and
\* the frame.
ReadResult(t) ==
    get_read(store.logs[rd[t].cmd_pos.geneeration], rd[t].cmd_pos.pos)

ReadFrame(t) ==
    read_frame(store.logs[rd[t].cmd_pos.geneeration], rd[t].cmd_pos.pos)

GReadWith(t, result, f) ==
    /\ rd[t].pc = "read"
    /\ GReadDone(t, result, f)
    /\ UNCHANGED <<store, wr, treaders, hist, seqvars>>

\* kv.rs:411-433
GRead(t) == GReadWith(t, ReadResult(t), ReadFrame(t))

NextC ==
    \/ \E key \in Keys, value \in Values : WStartSet(key, value)
    \/ \E key \in Keys : WStartRemove(key)
    \/ \E key \in Keys : WRemoveAbsent(key)
    \/ WIndex
    \/ CNewFiles
    \/ CCopy
    \/ CFlush
    \/ CIndexUpdate
    \/ CSafePoint
    \/ CDelete
    \/ CDone
    \/ \E t \in {"t1"}, key \in Keys : GBegin(t, key)
    \/ \E t \in {"t1"} : GReader(t)
    \/ \E t \in {"t1"} : GSeek(t)
    \/ \E t \in {"t1"} : GRead(t)

SpecC == Init /\ [][NextC]_vars

\* The steps of a write, compaction included, leave the state that the call
\* leaves when it runs without interruption.
StepwiseAgrees == wr.pc = "idle" => store = wr.expect

\* ------------------------------------------- a crash during a compaction
\* The process stops at a step of a compaction and KvStore::open runs on
\* the directory as the crash left it.  Of the bytes that the compaction
\* writer holds in its BufWriter, any initial part may have reached the
\* file.

CompactionSteps == {"copy", "index_update", "delete"}

CrashReturns(n, r) ==
    /\ store' = r.s
    /\ op' = Call("open", <<>>, <<>>, r.err)
    /\ snap' = [NoSnap EXCEPT !.gets = GetAll(store), !.files = store.files]
    /\ stamped' = <<>>
    /\ fault' = [kind |-> "crash", geneeration |-> wr.compaction_generation,
                 at |-> n, partial |-> n \notin Boundaries(wr.cw.buf, 0)]
    /\ wr' = [wr EXCEPT !.pc = "crashed"]
    /\ UNCHANGED <<shadow, rd, treaders, hist, sled, netvars, thrvars>>

Crash(n) ==
    /\ wr.pc \in CompactionSteps
    /\ store.current_generation + 1 <= MaxGen
    /\ n <= Len(wr.cw.buf)
    /\ CrashReturns(n,
           open(store.files,
                [store.logs EXCEPT ![wr.compaction_generation] =
                     @ \o SubSeq(wr.cw.buf, 1, n)]))

\* Between two calls the engine is dropped and opened again.
IdleReopen == wr.pc = "idle" /\ Reopen

NextX ==
    \/ \E key \in Keys, value \in Values : WStartSet(key, value)
    \/ \E key \in Keys : WStartRemove(key)
    \/ \E key \in Keys : WRemoveAbsent(key)
    \/ WIndex
    \/ CNewFiles
    \/ CCopy
    \/ CFlush
    \/ CIndexUpdate
    \/ CSafePoint
    \/ CDelete
    \/ CDone
    \/ IdleReopen
    \/ \E n \in 0..MaxFileLen : Crash(n)

SpecX == Init /\ [][NextX]_vars

\* ------------------------------------------- two writers and the writer mutex
\* Two threads call set and remove; each takes the writer mutex for the
\* length of its call.  wr is the position and the locals of the thread cur
\* that the scheduler runs, parked those of the other one; Switch hands the
\* processor to the other thread.

Other(t) == IF t = "w1" THEN "w2" ELSE "w1"

\* Mutant: the mutex is handed to whoever asks.
lock_barging(m, t) == [acquired |-> TRUE, m |-> t]

\* Mutex::lock: the caller gets the mutex when no thread holds it, and
\* blocks otherwise.
lock(m, t) ==
    IF m = "free" THEN [acquired |-> TRUE, m |-> t]
    ELSE [acquired |-> FALSE, m |-> m]

\* The thread is between its lock() and the return of the call made with
\* the guard.
InCall(locals) == locals.pc # "idle" \/ locals.name = "lock"

Switch ==
    /\ cur' = Other(cur)
    /\ wr' = parked
    /\ parked' = wr
    /\ UNCHANGED <<store, mutex, rd, treaders, hist, op, snap, shadow, stamped,
                   fault, sled, netvars>>

\* writer.lock() of the running thread: it gets the guard, or is blocked
\* in lock() until a later try gets it.
MLock ==
    /\ ~InCall(wr)
    /\ mutex # cur
    /\ mutex' = lock(mutex, cur).m
    /\ wr' = [wr EXCEPT !.name = IF lock(mutex, cur).acquired
                                 THEN "lock" ELSE "wait"]
    /\ UNCHANGED <<store, cur, parked, rd, treaders, hist, op, snap, shadow,
                   stamped, fault, sled, netvars>>

\* The guard is dropped when the call has returned, and the call's locals
\* with it.
MUnlock ==
    /\ mutex = cur
    /\ ~InCall(wr)
    /\ wr.name = ""
    /\ mutex' = "free"
    /\ wr' = WriterIdle(Ok, open({}, EmptyMap).s)
    /\ UNCHANGED <<store, cur, parked, rd, treaders, hist, op, snap,
                   shadow, stamped, fault, sled, netvars>>

\* The calls the thread makes with the guard.
LockedSet(key, value) == wr.name = "lock" /\ WStartSet(key, value)

LockedRemove(key) == wr.name = "lock" /\ WStartRemove(key)

LockedRemoveAbsent(key) == wr.name = "lock" /\ WRemoveAbsent(key)

NextW ==
    \/ Switch
    \/ MLock
    \/ MUnlock
    \/ \E key \in Keys, value \in Values : LockedSet(key, value)
    \/ \E key \in Keys : LockedRemove(key)
    \/ \E key \in Keys : LockedRemoveAbsent(key)
    \/ WIndex
    \/ CNewFiles
    \/ CCopy
    \/ CFlush
    \/ CIndexUpdate
    \/ CSafePoint
    \/ CDelete
    \/ CDone

SpecW == Init /\ [][NextW]_vars

\* -------------------------------------- gets while a thread holds the mutex
\* One thread calls set and remove under the writer mutex; two threads each
\* call get once.
BusySet(key, value) ==
    store.current_sequence < MaxBusySeq /\ LockedSet(key, value)

BusyRemove(key) == store.current_sequence < MaxBusySeq /\ LockedRemove(key)

FirstGet(t, key) == rd[t].pc = "idle" /\ GBegin(t, key)

NextG ==
    \/ MLock
    \/ MUnlock
    \/ \E key \in Keys, value \in Values : BusySet(key, value)
    \/ \E key \in Keys : BusyRemove(key)
    \/ \E key \in Keys : LockedRemoveAbsent(key)
    \/ WIndex
    \/ CNewFiles
    \/ CCopy
    \/ CFlush
    \/ CIndexUpdate
    \/ CSafePoint
    \/ CDelete
    \/ CDone
    \/ \E t \in Threads, key \in Keys : FirstGet(t, key)
    \/ \E t \in Threads : GReader(t)
    \/ \E t \in Threads : GSeek(t)
    \/ \E t \in Threads : GRead(t)

SpecG == Init /\ [][NextG]_vars

\* ------------------------------------------------------------------ claims

\* C1: after set(K, V) returns Ok, get(K) returns Some(V) until a later
\* set or remove of K, whatever happens to other keys and whatever
\* compactions (and reopens) happen in between.
C1_SetThenGet ==
    \A k \in Keys :
        shadow[k].kind = "set" => get(store, k) = Some(shadow[k].value)

\* A get answered Some(V) for a key set earlier, after a compaction and with
\* the other key written too.
C1_Witness ==
    /\ op.name = "get" /\ op.result = "Some"
    /\ shadow[op.key] = Written(op.value)
    /\ store.safe_point > 0
    /\ \E k \in Keys \ {op.key} : shadow[k].kind # "never"

\* C2: after remove(K) returns Ok, get(K) returns None until a later set(K, _).
C2_RemoveThenGet ==
    \A k \in Keys : shadow[k].kind = "removed" => get(store, k) = None

\* A get answered None for a removed key after a compaction.
C2_Witness ==
    /\ op.name = "get" /\ op.result = "None"
    /\ shadow[op.key].kind = "removed"
    /\ store.safe_point > 0

\* C3: remove(K) of a key that is not in the index returns KeyNotFound and
\* changes nothing: no log file grows, and the index, the sequence counter,
\* the uncompacted counter and the current generation stay as they were.
C3_RemoveAbsent ==
    [][\A k \in Keys :
        (op'.name = "remove" /\ op'.key = k /\ k \notin DOMAIN store.index)
        => (op'.result = KeyNotFound /\ store' = store /\ stamped' = stamped)
      ]_vars

\* The second remove of set(K, V); remove(K); remove(K).
C3_Witness ==
    /\ op.name = "remove" /\ op.result = KeyNotFound
    /\ shadow[op.key].kind = "removed"
    /\ DiskUsage(store) > 0

\* C4: reopening the store on the same directory gives, for every key, the
\* get result the store gave just before it was closed.
C4_ReopenSameGets ==
    op.name = "open" => (op.result = Ok /\ GetAll(store) = snap.gets)

\* A reopen of a directory that went through a compaction, with a live key
\* and a removed key.
C4_Witness ==
    /\ op.name = "open"
    /\ \E k \in Keys : get(store, k).kind = "Some"
    /\ \E k \in Keys : shadow[k].kind = "removed"
    /\ 1 \notin store.files
    /\ store.uncompacted > 0

\* C5: the sequence numbers stamped by one engine instance are strictly
\* increasing in the order of the writes; no two records share one.
C5_SequenceIncreasing ==
    \A i, j \in 1..Len(stamped) : i < j => stamped[i] < stamped[j]

\* Three writes by one instance, a set and a remove among them, with a
\* compaction.
C5_Witness ==
    /\ Len(stamped) >= 3
    /\ store.safe_point > 0
    /\ \E k \in Keys : shadow[k].kind = "removed"
    /\ \E k \in Keys : shadow[k].kind = "set"

\* C6: a compaction preserves every key's get result, and when it returns
\* no log file of a generation below the compaction generation remains.
C6_CompactionPreserves ==
    snap.ran =>
        /\ op.result = Ok
        /\ GetAll(store) = snap.gets
        /\ \A g \in store.files : g >= snap.compaction_generation

\* A compaction run by a write, with a live key, and with stale bytes.
C6_Witness ==
    /\ snap.ran /\ op.name \in {"set", "remove"}
    /\ \E k \in Keys : snap.gets[k].kind = "Some"
    /\ snap.usage > snap.live

\* C7: after a compaction the log files together are no larger than the
\* records of the live keys, and strictly smaller than before whenever stale
\* bytes existed.
C7_CompactionShrinks ==
    snap.ran =>
        /\ DiskUsage(store) <= snap.live
        /\ snap.usage > snap.live => DiskUsage(store) < snap.usage

\* A compaction that started with both live and stale bytes.
C7_Witness ==
    /\ snap.ran
    /\ snap.live > 0
    /\ snap.usage > snap.live
    /\ Cardinality(snap.files) >= 2

\* The scenario of C8: in a store opened on a fresh directory (it holds
\* 1.log only), sets of one key until the write that runs the compaction.
C8_Scenario ==
    /\ op.name = "set" /\ snap.ran
    /\ snap.files_at_call = {1}
    /\ \A k \in Keys \ {op.key} : shadow[k].kind = "never"

\* C8 as stated: after the triggering write the directory holds strictly
\* fewer generation files than just before it, and get returns the latest
\* value.
C8_FewerFiles ==
    C8_Scenario =>
        /\ Cardinality(store.files) < Cardinality(snap.files_at_call)
        /\ get(store, op.key) = Some(op.value)

\* C8 amended: after the triggering write none of the files present before
\* it remains, the directory holds exactly the compaction generation and the
\* new current generation, its total size is strictly smaller, and get
\* returns the latest value.
C8_OldFilesReplaced ==
    C8_Scenario =>
        /\ store.files \cap snap.files_at_call = {}
        /\ store.files = {snap.compaction_generation,
                          snap.compaction_generation + 1}
        /\ DiskUsage(store) < snap.usage
        /\ get(store, op.key) = Some(op.value)

C8_Witness ==
    /\ C8_Scenario
    /\ op.result = Ok
    /\ store.files = {2, 3}

\* C9 as stated: with threads sharing one engine, a get that begins after a
\* write of its key returned Ok returns the value of that write or of a
\* later one (None for a remove), never an older value.  floor is the
\* sequence number of the last write of the key that had returned Ok when
\* the get looked the key up; seen is that of the write whose effect the get
\* returns.
C9_WriteVisible ==
    \A t \in Threads :
        rd[t].pc = "done" =>
            /\ rd[t].result.kind \in {"Some", "None"}
            /\ rd[t].rkey = rd[t].key
            /\ rd[t].seen >= rd[t].floor

\* Every get that does return a result returns one that is not older than
\* the last completed write of its key.
C9_NeverOlder ==
    \A t \in Threads :
        (rd[t].pc = "done" /\ rd[t].result.kind \in {"Some", "None"}) =>
            (rd[t].rkey = rd[t].key /\ rd[t].seen >= rd[t].floor)

\* What a read of corrupt or misplaced record bytes gives.
DataErrors == {CorruptedData, Deserialize, UnexpectedCommandType, IoError}

\* C10: a get that found an index entry never observes CorruptedData, nor
\* any other failure of reading and decoding the record's bytes, however
\* its steps (index lookup, reader lookup/open, seek, read) interleave with
\* the steps of a compaction on another thread.
C10_NoCorruptedData ==
    \A t \in Threads :
        rd[t].pc = "done" => rd[t].result.kind \notin DataErrors

\* A get read its record from a generation whose file a compaction deleted
\* after the get had looked the key up, and returned its value.
C10_Witness ==
    \E t \in Threads :
        /\ rd[t].pc = "done" /\ rd[t].result.kind = "Some"
        /\ rd[t].cmd_pos.geneeration \notin store.files
        /\ store.safe_point > rd[t].cmd_pos.geneeration

\* C11: the safe point of a running engine never decreases, and a compaction
\* sets it to that compaction's generation, which is strictly greater than
\* the safe point it replaces.  (A reopen builds a new engine, whose safe
\* point starts afresh.)
C11_SafePointAdvances ==
    [][op'.name # "open" =>
         /\ store'.safe_point >= store.safe_point
         /\ snap'.ran =>
              /\ store'.safe_point = snap'.compaction_generation
              /\ store'.safe_point > store.safe_point
      ]_vars

\* The second compaction of one engine: the safe point went from the first
\* compaction's generation to the second's.
C11_Witness ==
    /\ snap.ran /\ op.result = Ok
    /\ snap.safe_point > 0
    /\ store.safe_point = snap.compaction_generation
    /\ store.safe_point > snap.safe_point

\* The file damaged before the last open ended in a partial record: a
\* prefix of 1 to 3 bytes, or a prefix and less payload than it announces.
C12_PartialPrefix ==
    /\ fault.kind = "truncated" /\ fault.partial
    /\ fault.at - RecordStart(store.logs[fault.geneeration], fault.at) < 4

C12_PartialPayload ==
    /\ fault.kind = "truncated" /\ fault.partial
    /\ fault.at - RecordStart(store.logs[fault.geneeration], fault.at) >= 4

\* C12 as stated: an open of a directory in which a log file ends in a
\* partial record, or holds a record whose checksum does not match, fails
\* with CorruptedData or an I/O error.
C12_DamageFailsOpen ==
    (op.name = "open" /\ (C12_PartialPrefix \/ C12_PartialPayload
                           \/ fault.kind = "flipped"))
        => op.result \in {CorruptedData, IoError}

\* The part of C12 that the code keeps: a short payload fails the open with
\* an I/O error, a checksum mismatch fails it with CorruptedData, and a file
\* cut at a record boundary is replayed normally.
C12_OtherDamageDetected ==
    op.name = "open" =>
        /\ C12_PartialPayload => op.result = IoError
        /\ fault.kind = "flipped" => op.result = CorruptedData
        /\ (fault.kind = "truncated" /\ ~fault.partial) => op.result = Ok

\* What the code does with a truncated prefix: the open succeeds and the
\* 1 to 3 trailing bytes stay in the file, unread.
C12_SilentlyIgnored ==
    /\ op.name = "open" /\ op.result = Ok
    /\ C12_PartialPrefix

\* The last call was a remove of a key that was absent.
C13_RemovedAbsent == op.name = "remove" /\ op.result = KeyNotFound

\* C13 as stated: SledKvsEngine gives every call the result KvStore gives
\* it, KeyNotFound for the remove of an absent key included.
C13_SameResults ==
    op.name \in {"get", "set", "remove"} =>
        /\ sled.ret.kind = op.result
        /\ op.name = "get" => sled.ret.value = op.value

\* The part of C13 that the code keeps: the two engines agree on every call
\* but the remove of an absent key, which SledKvsEngine answers Ok.
C13_SameButRemoveAbsent ==
    op.name \in {"get", "set", "remove"} =>
        IF C13_RemovedAbsent THEN sled.ret.kind = Ok
        ELSE /\ sled.ret.kind = op.result
             /\ op.name = "get" => sled.ret.value = op.value

\* C14: on a connection the server writes one framed response per decoded
\* request, of the response kind that matches the request, in the order of
\* the requests; it reads a request only when every earlier one has its
\* response written and flushed.  (A response that cannot be written, the
\* connection being broken, ends the connection.)
C14_ResponsePerRequest ==
    \A c \in Connections :
        /\ Len(conn[c].resps) <= Len(conn[c].reqs)
        /\ Len(conn[c].reqs) <= Len(conn[c].resps) + 1
        /\ \A i \in 1..Len(conn[c].resps) :
              conn[c].resps[i].kind = ResponseKind(conn[c].reqs[i])
        /\ (srv.conn = c /\ srv.pc = "read") =>
              Len(conn[c].resps) = Len(conn[c].reqs)
        /\ (Len(conn[c].reqs) > Len(conn[c].resps)) =>
              \/ (srv.conn = c /\ srv.pc = "respond")
              \/ conn[c].outcome = IoError
        /\ conn[c].outbox =
              FramesFrom(conn[c].resps, Len(conn[c].results) + 1)
        /\ \A i \in (Len(conn[c].results) + 1)..Len(conn[c].reqs) :
              ResponseKind(conn[c].reqs[i]) =
                  conn[c].awaiting[i - Len(conn[c].results)]

\* A client wrote two requests of different kinds before reading; both are
\* answered and the server is back at reading from the connection.
C14_Witness ==
    \E c \in Connections :
        /\ srv.conn = c /\ srv.pc = "read"
        /\ Len(conn[c].resps) = 2 /\ conn[c].results = <<>>
        /\ conn[c].resps[1].kind # conn[c].resps[2].kind

\* What serve returns when a connection fails: a decode failure, or an I/O
\* error of a read or a write.
ConnectionErrors == {Serialization, IoError}

\* C15: an error on a connection ends that connection only.  The server is
\* never stopped by it: it stays in the accept loop, where the next waiting
\* connection can be accepted, or serves another connection.  The engine is
\* in the state that the decoded requests, given to it in order, produce:
\* a failed connection changes nothing beyond them.
C15_ErrorEndsConnectionOnly ==
    /\ srv.pc \in {"accept", "read", "respond"}
    /\ \A c \in Connections :
          conn[c].outcome \in ConnectionErrors =>
              (conn[c].state = "done" /\ srv.conn # c)
    /\ (srv.pc = "accept" /\ srv.backlog # <<>>) => ENABLED Accept
    /\ Len(srv.log) + (IF srv.pc = "respond" THEN 1 ELSE 0)
          = TotalReqs(Connections)
    /\ store = Replay(open({}, EmptyMap).s, srv.log)

\* One connection was answered once and then failed on a message that is
\* no request; a connection accepted after it is being served and has been
\* answered.
C15_Witness ==
    \E c, d \in Connections :
        /\ conn[c].outcome = Serialization /\ conn[c].resps # <<>>
        /\ srv.conn = d /\ conn[d].resps # <<>>

\* C16: a request whose engine operation fails is answered with the Err arm
\* of the matching response kind, carrying the Debug text of the error; the
\* client's call returns that text as a StringError; serve never returns an
\* engine error, so the connection stays open for the next request.
C16_EngineErrorAnswered ==
    \A c \in Connections :
        /\ conn[c].outcome \in {"", Ok} \cup ConnectionErrors
        /\ Len(conn[c].engine) = Len(conn[c].resps)
        /\ (Len(conn[c].reqs) > Len(conn[c].resps)) =>
              \/ (srv.conn = c /\ srv.pc = "respond")
              \/ conn[c].outcome = IoError
        /\ \A i \in 1..Len(conn[c].resps) :
              conn[c].engine[i] # Ok =>
                 /\ conn[c].resps[i] =
                       ResponseErr(ResponseKind(conn[c].reqs[i]),
                                   DebugText(conn[c].engine[i]))
                 /\ i <= Len(conn[c].results) =>
                       conn[c].results[i] =
                          [kind |-> "StringError",
                           value |-> DebugText(conn[c].engine[i])]

\* remove of an absent key, then set, on one connection: the client's calls
\* returned StringError("KeyNotFound") and Ok(()).
C16_Witness ==
    \E c \in Connections :
        /\ Len(conn[c].results) = 2
        /\ conn[c].reqs[1].type = "Remove" /\ conn[c].engine[1] = KeyNotFound
        /\ conn[c].results[1] =
              [kind |-> "StringError", value |-> DebugText(KeyNotFound)]
        /\ conn[c].results[2] = Err(Ok)

\* The highest generation of a directory that is not empty.
HighestGeneration(files) == CHOOSE g \in files : \A h \in files : h <= g

\* C17: open sets current_generation to one more than the highest
\* generation found in the directory, or to 1 when it finds none, and an
\* empty directory gives an empty store.  The file open appends to is new
\* and empty: the files that held the recovered records are left as found.
C17_OpenGeneration ==
    (op.name = "open" /\ op.result = Ok) =>
        /\ store.current_generation =
              IF snap.files = {} THEN 1
              ELSE HighestGeneration(snap.files) + 1
        /\ snap.files = {} => \A k \in Keys : get(store, k) = None
        /\ store.writer = NewWriter(store.current_generation)
        /\ store.current_generation \notin snap.files
        /\ store.logs[store.current_generation] = <<>>
        /\ store.files = snap.files \cup {store.current_generation}
        /\ \A g \in snap.files : store.logs[g] = snap.logs[g]

\* An open of a directory that holds 2.log and 3.log, left by a compaction,
\* with records to recover: the current generation becomes 4.
C17_Witness ==
    /\ op.name = "open" /\ op.result = Ok
    /\ snap.files = {2, 3}
    /\ store.current_generation = 4
    /\ DOMAIN store.index # {}

\* The bytes of file g from offset pos hold a complete record of length len
\* (prefix included) that decodes to a Set of key with a matching checksum.
HoldsSetRecord(s, g, pos, len, key) ==
    /\ g \in s.files
    /\ read_frame(s.logs[g], pos).st = "ok"
    /\ len = 4 + Len(read_frame(s.logs[g], pos).msg_bytes)
    /\ decode(read_frame(s.logs[g], pos).msg_bytes).ok
    /\ verify_checksum(decode(read_frame(s.logs[g], pos).msg_bytes).cmd)
    /\ decode(read_frame(s.logs[g], pos).msg_bytes).cmd.command.type = "Set"
    /\ decode(read_frame(s.logs[g], pos).msg_bytes).cmd.command.key = key

\* C18: in every state, the states between the steps of a write and of a
\* compaction included, every index entry designates a file that exists and
\* that holds, flushed, a complete Set record of the entry's key at the
\* entry's offset and of the entry's length.
C18_IndexEntriesValid ==
    \A k \in DOMAIN store.index :
        HoldsSetRecord(store, store.index[k].geneeration, store.index[k].pos,
                       store.index[k].len, k)

\* A compaction between two of its index updates: one key's entry is in the
\* compaction file, the other's still in the old file.
C18_Witness ==
    /\ wr.pc = "index_update"
    /\ \E k, j \in DOMAIN store.index :
          /\ store.index[k].geneeration = wr.compaction_generation
          /\ store.index[j].geneeration < wr.compaction_generation

\* The step repoints key k's index entry into the compaction file.
Repointed(k) ==
    /\ k \in DOMAIN store.index /\ k \in DOMAIN store'.index
    /\ store'.index[k] # store.index[k]
    /\ store'.index[k].geneeration = wr.compaction_generation

\* C19: the steps of one compaction are ordered.  A step that repoints an
\* index entry into the compaction file finds the record already flushed
\* there and the safe point not yet published; the step that publishes the
\* safe point finds every index entry in the compaction generation and no
\* file deleted yet; a step that deletes a file finds the safe point
\* published, every index entry in the compaction generation and so none in
\* the generation of the file it deletes.
C19_CompactionOrder ==
    [][/\ \A k \in Keys :
             Repointed(k) =>
                 /\ HoldsSetRecord(store, store'.index[k].geneeration,
                                   store'.index[k].pos, store'.index[k].len, k)
                 /\ store.safe_point < wr.compaction_generation
                 /\ store'.safe_point = store.safe_point
                 /\ store'.files = store.files
       /\ store'.safe_point # store.safe_point =>
             /\ store'.safe_point = wr.compaction_generation
             /\ \A k \in DOMAIN store.index :
                   /\ store.index[k].geneeration = wr.compaction_generation
                   /\ HoldsSetRecord(store, store.index[k].geneeration,
                                     store.index[k].pos, store.index[k].len, k)
             /\ store'.index = store.index
             /\ store'.files = store.files
             /\ \A g \in wr'.stale : g \in store.files
       /\ \A g \in store.files \ store'.files :
             /\ g < wr.compaction_generation
             /\ store.safe_point = wr.compaction_generation
             /\ store'.index = store.index
             /\ \A k \in DOMAIN store.index :
                   /\ store.index[k].geneeration # g
                   /\ store.index[k].geneeration = wr.compaction_generation]_vars

\* A compaction that repointed a key, published the safe point and has
\* deleted the older file.
C19_Witness ==
    /\ wr.pc = "delete"
    /\ wr.stale = {}
    /\ store.safe_point = wr.compaction_generation
    /\ store.index # EmptyMap
    /\ wr.compaction_generation - 1 \notin store.files
    /\ wr.compaction_generation \in store.files

\* The records of the listed keys, one after the other.
RECURSIVE Concat(_, _)
Concat(keys, records) ==
    IF keys = <<>> THEN <<>>
    ELSE records[Head(keys)] \o Concat(Tail(keys), records)

\* C20: after a compaction, the compaction file is the records that the
\* index designated when the compaction began, one per key in key order and
\* nothing else; every record in the file is a Set, and the record that a
\* key's entry now designates has the bytes, and so the sequence number,
\* checksum and value, of the one it designated before.
C20_CompactionFileIsCopy ==
    (snap.ran /\ op.result = Ok) =>
        /\ store.logs[snap.compaction_generation] =
               Concat(SortedKeys(DOMAIN snap.records), snap.records)
        /\ Cardinality(Boundaries(store.logs[snap.compaction_generation], 0)
                       \ {Len(store.logs[snap.compaction_generation])}) =
               Cardinality(DOMAIN snap.records)
        /\ \A p \in Boundaries(store.logs[snap.compaction_generation], 0)
                    \ {Len(store.logs[snap.compaction_generation])} :
              decode(read_frame(store.logs[snap.compaction_generation], p)
                         .msg_bytes).cmd.command.type = "Set"
        /\ DOMAIN store.index = DOMAIN snap.records
        /\ \A k \in DOMAIN snap.records :
              /\ store.index[k].geneeration = snap.compaction_generation
              /\ Designated(store)[k] = snap.records[k]
              /\ decode(read_frame(snap.records[k], 0).msg_bytes).cmd
                     .command.key = k

\* A compaction of two live keys, one of them removed and set again before,
\* so that the old files held a Remove record and superseded Set records.
C20_Witness ==
    /\ snap.ran /\ op.result = Ok
    /\ DOMAIN snap.records = Keys
    /\ \E k \in Keys :
          decode(read_frame(snap.records[k], 0).msg_bytes).cmd
              .sequence_number > 1
    /\ snap.usage >
           Len(Concat(SortedKeys(DOMAIN snap.records), snap.records))

\* What the writer mutex protects: the fields of KvStoreWriter that a write
\* changes, and the log files.
WriterFields(s) ==
    <<s.current_generation, s.writer, s.current_sequence, s.uncompacted,
      s.logs, s.files>>

\* C21: at most one thread at a time is inside set, remove or compact.  The
\* two writing threads are never both between lock() and the return of
\* their call, and every step that changes the current generation, the
\* write offset, the sequence counter, the uncompacted counter or a log file
\* is taken by the thread that holds the mutex while the other thread is
\* outside its call, whether a compaction is in progress or not.
C21_OneWriterAtATime ==
    [][/\ ~(InCall(wr) /\ InCall(parked))
       /\ ~(InCall(wr') /\ InCall(parked'))
       /\ WriterFields(store') # WriterFields(store) =>
             /\ cur' = cur
             /\ mutex = cur
             /\ InCall(wr)
             /\ ~InCall(parked)
             /\ parked' = parked]_vars

\* One thread is copying records in a compaction while the other is blocked
\* in lock().
C21_Witness ==
    /\ wr.pc = "copy"
    /\ wr.keys # <<>>
    /\ mutex = cur
    /\ parked.name = "wait"

\* C22: a get never waits.  Whatever the writing thread and the other
\* reading thread are doing, a thread outside get can start a get of any
\* key, and a thread inside get can take its next step.
C22_GetNeverWaits ==
    \A t \in Threads :
        /\ rd[t].pc = "idle" => \A key \in Keys : ENABLED FirstGet(t, key)
        /\ rd[t].pc = "reader" => ENABLED GReader(t)
        /\ rd[t].pc = "seek" => ENABLED GSeek(t)
        /\ rd[t].pc = "read" =>
              \E result \in {ReadResult(t)}, f \in {ReadFrame(t)} :
                  ENABLED GReadWith(t, result, f)

\* While the writing thread is copying records in the compaction that its
\* set triggered, one thread has looked up the key of that set and returned
\* its value, and the other thread is in the middle of a get.
C22_Witness ==
    /\ mutex = cur
    /\ wr.pc = "copy"
    /\ rd["t1"].pc = "done"
    /\ rd["t1"].result.kind = "Some"
    /\ rd["t1"].key = wr.key
    /\ rd["t1"].seen = wr.sequence
    /\ rd["t2"].pc = "read"

\* The bytes of the log files that are not part of a record the index
\* points to.
DeadBytes(s) == DiskUsage(s) - LiveBytes(s)

\* C23 as stated: after every completed call the uncompacted counter is the
\* number of bytes in the log files outside the records the index points
\* to, and it is the value that open computes from the same files.
C23_UncompactedIsDeadBytes ==
    /\ store.uncompacted = DeadBytes(store)
    /\ store.uncompacted = open(store.files, store.logs).s.uncompacted

\* What the counter does hold: open counts every dead byte, the Remove
\* records included; a running engine never counts more than the dead bytes,
\* and what it misses is the Remove records it wrote itself.
C23_OpenCountsDeadBytes ==
    /\ op.name = "open" => store.uncompacted = DeadBytes(store)
    /\ open(store.files, store.logs).s.uncompacted = DeadBytes(store)
    /\ store.uncompacted <= DeadBytes(store)

\* A remove has returned Ok without compacting, and the counter is short of
\* the dead bytes by the length of the Remove record.
C23_RemoveRecordNotCounted ==
    /\ op.name = "remove" /\ op.result = Ok /\ ~snap.ran
    /\ Len(stamped) = 2
    /\ DeadBytes(store) - store.uncompacted = 11

C25_GenerationsAdvance ==
    [][/\ store'.current_generation >= store.current_generation
       /\ store'.current_generation = HighestGeneration(store'.files)
       /\ store'.writer.file = store'.current_generation
       /\ (snap'.ran /\ op'.result = Ok) =>
             /\ snap'.compaction_generation = store.current_generation + 1
             /\ store'.current_generation = store.current_generation + 2
             /\ store.current_generation + 1 \notin store.files
             /\ store.current_generation + 2 \notin store.files
             /\ store.current_generation + 1 \in store'.files
             /\ store.current_generation + 2 \in store'.files
             /\ \A k \in DOMAIN store'.index :
                   /\ store'.index[k].geneeration = snap'.compaction_generation
                   /\ store'.index[k].geneeration < store'.writer.file
       /\ (op'.name = "set" /\ op'.result = Ok /\ ~snap'.ran) =>
             /\ store'.index[op'.key].geneeration = store.current_generation
             /\ store'.index[op'.key].geneeration > store.safe_point
             /\ store.safe_point > 0 =>
                   get(open(store'.files, store'.logs).s, op'.key) =
                       Some(op'.value)]_vars

\* After a compaction into generation 2, that left 3 current, a set has
\* overwritten a compacted key in generation 3.
C25_Witness ==
    /\ op.name = "set" /\ op.result = Ok /\ ~snap.ran
    /\ store.safe_point = 2
    /\ store.current_generation = 3
    /\ store.index[op.key].geneeration = 3
    /\ read_frame(store.logs[2], 0).st = "ok"
    /\ decode(read_frame(store.logs[2], 0).msg_bytes).cmd.command.key = op.key

\* The sequence numbers of the records in the log files of the directory.
SequencesOnDisk(s) ==
    UNION {{StampedAt(s, g, p) :
               p \in Boundaries(s.logs[g], 0) \ {Len(s.logs[g])}} :
           g \in s.files}

\* The largest of a finite set of naturals, 0 for the empty set.
MaxOf(S) == IF S = {} THEN 0 ELSE CHOOSE n \in S : \A m \in S : m <= n

\* C26: after open, current_sequence is the largest sequence number among
\* the records in the directory's log files, 0 when there are none; the
\* first record written after an open is stamped with that number plus one,
\* which is greater than the number of every record on disk, and is 1 on a
\* fresh store.
C26_SequenceSeededByOpen ==
    [][/\ (op.name = "open" /\ op.result = Ok) =>
             store.current_sequence = MaxOf(SequencesOnDisk(store))
       /\ (op'.name = "open" /\ op'.result = Ok) =>
             store'.current_sequence = MaxOf(SequencesOnDisk(store'))
       /\ (op.name = "open" /\ op.result = Ok /\ stamped' # stamped
           /\ op'.name \in {"set", "remove"}) =>
             /\ stamped'[Len(stamped')] = store.current_sequence + 1
             /\ \A n \in SequencesOnDisk(store) : stamped'[Len(stamped')] > n
             /\ SequencesOnDisk(store) = {} => stamped'[Len(stamped')] = 1]_vars

\* An open found the highest sequence number in a file that is not the
\* newest one, and the first write after it was stamped with the next
\* number.
C26_Witness ==
    /\ op.name = "set" /\ op.result = Ok
    /\ stamped = <<4>>
    /\ Cardinality(store.files) >= 3
    /\ store.logs[store.current_generation - 1] = <<>>

\* The last call was a get of a key that is in the index.
C27_GetOfIndexedKey == op.name = "get" /\ op.key \in DOMAIN store.index

\* C27 as stated: get of a key in the index returns UnexpectedCommandType
\* when the record at the indexed location is a Remove or has no command,
\* CorruptedData when its checksum does not match, Some(value) when it is a
\* Set with a matching checksum, and never None.
C27_GetClassifiesRecord ==
    C27_GetOfIndexedKey =>
        /\ fault.kind \in {"remove", "empty"} =>
              op.result = UnexpectedCommandType
        /\ fault.kind = "checksum" => op.result = CorruptedData
        /\ fault.kind \in {"none", "set"} => op.result = "Some"
        /\ op.result # "None"

\* The part of C27 that the code keeps: a Remove gives UnexpectedCommandType,
\* a checksum mismatch CorruptedData, a Set with a matching checksum its
\* value, and no key in the index gives None; a record with no command
\* gives CorruptedData.
C27_ExceptEmptyCommand ==
    C27_GetOfIndexedKey =>
        /\ fault.kind = "remove" => op.result = UnexpectedCommandType
        /\ fault.kind \in {"checksum", "empty"} => op.result = CorruptedData
        /\ fault.kind \in {"none", "set"} =>
              /\ op.result = "Some"
              /\ op.value = decode(read_frame(
                     store.logs[store.index[op.key].geneeration],
                     store.index[op.key].pos).msg_bytes).cmd.command.value
        /\ op.result # "None"

\* get read a record with no command and returned CorruptedData.
C27_EmptyIsCorrupted ==
    /\ C27_GetOfIndexedKey
    /\ fault.kind = "empty"
    /\ op.result = CorruptedData

\* a is an initial part of b.
IsPrefix(a, b) == Len(a) <= Len(b) /\ SubSeq(b, 1, Len(a)) = a

\* C28: log files are append-only.  No step changes a byte that a file
\* already holds; the step of set or remove that writes the record appends
\* it to the current generation's file and leaves the directory and every
\* other file as they were; a file leaves the directory only in the
\* deletion step of a compaction, whole, and it is a generation below the
\* compaction's.
C28_AppendOnly ==
    [][/\ \A g \in store.files \cap store'.files :
             IsPrefix(store.logs[g], store'.logs[g])
       /\ \A g \in store.files \ store'.files :
             /\ wr.pc = "delete"
             /\ g < wr.compaction_generation
       /\ (wr.pc = "idle" /\ wr'.pc = "index") =>
             /\ store'.files = store.files
             /\ store.writer.file = store.current_generation
             /\ Len(store'.logs[store.writer.file]) >
                    Len(store.logs[store.writer.file])
             /\ \A g \in store.files \ {store.writer.file} :
                   store'.logs[g] = store.logs[g]
       /\ wr.pc = "index" =>
             \A g \in store.files : store'.logs[g] = store.logs[g]]_vars

\* After a compaction into generation 2, a write has appended its record to
\* generation 3 while generation 2 holds the compacted record.
C28_Witness ==
    /\ wr.pc = "index"
    /\ store.files = {2, 3}
    /\ store.writer.file = 3
    /\ store.logs[3] # <<>>
    /\ store.logs[2] # <<>>

\* The last step was a crash during a compaction, followed by open.
C29_Crashed == wr.pc = "crashed" /\ op.name = "open"

\* The crash left the compaction file ending in a length prefix with less
\* payload than it announces.
C29_PartialPayload ==
    /\ fault.partial
    /\ fault.at - RecordStart(wr.cw.buf, fault.at) >= 4

\* The crash came between two deletions, after a stale file had been
\* deleted that is newer than one still there.
C29_NewerDeletedFirst ==
    \E g \in wr.stale \cap snap.files :
        \E h \in (g + 1)..(wr.compaction_generation - 1) : h \notin snap.files

\* C29 as stated: after a crash at any step of a compaction, open gives for
\* every key the get result that the engine gave before the crash, which is
\* the one it gave when the compaction started; a removed key stays removed.
C29_CrashKeepsGets ==
    C29_Crashed => (op.result = Ok /\ GetAll(store) = snap.gets)

\* The part of C29 that the code keeps: the results are kept unless the
\* compaction file ends in a partial payload, which fails the open, or a
\* newer stale file was deleted before an older one.
C29_KeptInOrder ==
    C29_Crashed =>
        /\ C29_PartialPayload => op.result = IoError
        /\ (~C29_PartialPayload /\ ~C29_NewerDeletedFirst) =>
              (op.result = Ok /\ GetAll(store) = snap.gets)

\* A key that was removed before the compaction is back after the crash:
\* the file with its Remove record was deleted, an older file with its Set
\* record was not.
C29_RemovedKeyReturns ==
    /\ C29_Crashed /\ op.result = Ok
    /\ C29_NewerDeletedFirst
    /\ \E k \in Keys : snap.gets[k] = None /\ get(store, k).kind = "Some"

\* The open after a crash in the middle of the copy fails.
C29_OpenFailsOnPartialCopy ==
    /\ C29_Crashed
    /\ C29_PartialPayload
    /\ op.result = IoError

\* C30 as stated: no sequence number is stamped twice in one directory.  The
\* counter that an open seeds is not below the counter that the engine
\* dropped before it had reached, so that the next number assigned is above
\* every number assigned before, those of records that a compaction deleted
\* included.
C30_NoSequenceReuse ==
    op.name = "open" => store.current_sequence >= snap.sequence

\* What the code keeps: a running engine stamps its counter plus one on
\* every record and never lowers the counter, and an open seeds the counter
\* with the largest number still on disk.
C30_NoReuseWhileRunning ==
    [][/\ op'.name # "open" =>
             store'.current_sequence >= store.current_sequence
       /\ (stamped' # stamped /\ op'.name # "open") =>
             /\ stamped'[Len(stamped')] = store.current_sequence + 1
             /\ store'.current_sequence = store.current_sequence + 1
       /\ op'.name = "open" =>
             store'.current_sequence = MaxOf(SequencesOnDisk(store))]_vars

\* An open seeded the counter below the numbers already stamped: the
\* records that carried the highest numbers were deleted by a compaction.
C30_SequenceReused ==
    /\ op.name = "open" /\ op.result = Ok
    /\ store.current_sequence < snap.sequence
    /\ \A n \in SequencesOnDisk(store) : n < snap.sequence

\* The get of thread t found an index entry for its key (generations start
\* at 1) and has returned.
FoundAndDone(t) == rd[t].pc = "done" /\ rd[t].cmd_pos.geneeration > 0

\* C31 as stated: a get whose index lookup returned an entry for its key
\* completes with a value of that key that was current at some point during
\* the get (the entry's record, which is not older than the last write
\* completed before the lookup), however its steps interleave with a
\* compaction on another thread; it never panics for want of a reader of the
\* entry's generation.
C31_GetCompletes ==
    \A t \in Threads :
        FoundAndDone(t) =>
            /\ rd[t].result.kind = "Some"
            /\ rd[t].result # Err(Panic)
            /\ rd[t].rkey = rd[t].key /\ rd[t].seen >= rd[t].floor

\* What the code keeps: a get that found an entry either returns the value
\* of the entry's record, or panics, and it panics only when the thread held
\* no reader for the entry's generation and a compaction had deleted the
\* file (the generation is below the safe point) before the thread came to
\* open it.
C31_FailsOnlyOnDeletedFile ==
    \A t \in Threads :
        FoundAndDone(t) =>
            \/ /\ rd[t].result.kind = "Some"
               /\ rd[t].rkey = rd[t].key /\ rd[t].seen >= rd[t].floor
            \/ /\ rd[t].result = Err(Panic)
               /\ rd[t].cmd_pos.geneeration \notin treaders[t]
               /\ rd[t].cmd_pos.geneeration \notin store.files
               /\ rd[t].cmd_pos.geneeration < store.safe_point

\* A get looked its key up, a compaction then deleted the generation of the
\* entry, and the get panicked with "Cannot find log reader" while the key
\* still has a value in the index.
C31_GetPanics ==
    \E t \in Threads :
        /\ FoundAndDone(t) /\ rd[t].result = Err(Panic)
        /\ rd[t].cmd_pos.geneeration < store.safe_point
        /\ rd[t].key \in DOMAIN store.index

\* The server has read or answered a request of connection c in this step.
Handled(c) == conn'[c].reqs # conn[c].reqs \/ conn'[c].resps # conn[c].resps

\* C32: the server handles connections strictly one at a time.  At most one
\* connection is being served, and it is the server's.  A connection is
\* taken from the head of the listener's queue, and only when no connection
\* is being served.  A request is read or answered only on the connection
\* being served, and at that step every other connection either has ended
\* or has had no request read and no response written yet.
C32_OneConnectionAtATime ==
    /\ [](\A c \in Connections :
            conn[c].state = "serving" =>
                /\ srv.conn = c /\ srv.pc # "accept"
                /\ \A d \in Connections \ {c} : conn[d].state # "serving")
    /\ [][\A c \in Connections :
            /\ (conn[c].state = "backlog" /\ conn'[c].state # "backlog") =>
                  /\ c = Head(srv.backlog) /\ srv.pc = "accept"
                  /\ \A d \in Connections : conn[d].state # "serving"
            /\ Handled(c) =>
                  /\ conn[c].state = "serving" /\ srv.conn = c
                  /\ \A d \in Connections \ {c} :
                        \/ conn[d].state = "done"
                        \/ /\ conn[d].state \in {"idle", "backlog"}
                           /\ conn[d].reqs = <<>> /\ conn[d].resps = <<>>
         ]_vars

\* A connection has had a request answered and is still open, while a
\* second connection waits in the listener's queue with a whole request
\* sent and not read.
C32_Witness ==
    \E c \in Connections, d \in Connections :
        /\ conn[c].state = "serving" /\ conn[c].resps # <<>>
        /\ conn[d].state = "backlog" /\ srv.backlog = <<d>>
        /\ read_message(conn[d].inbox).st = "ok"
        /\ conn[d].reqs = <<>> /\ conn[d].outbox = <<>>

====
